---- MODULE Spec2Model ----
(***************************************************************************)
(* Image Matrix: the size-constrained encoder (utils.py), the slicer       *)
(* (slicer.py), the stitcher (stitcher.py), the merger (merger.py), the    *)
(* sorter (sorter.py), and the window with its worker threads (main.py).   *)
(*                                                                         *)
(* Every entry point is a function of its arguments, of the decoded image  *)
(* and of the behaviour of the imaging library (the size an encode yields  *)
(* at a quality, whether an encode raises).  Init draws these from bounded *)
(* sets; one action per entry point runs the whole call and records what   *)
(* it did in `result`.                                                     *)
(*                                                                         *)
(* Arithmetic: the code computes cut targets in floating point             *)
(* (i * (L / count)); the model computes them as exact rationals kept as   *)
(* numerator and denominator.  For every length and count of the model the *)
(* two agree on every int() the code takes (i < count).                    *)
(***************************************************************************)
EXTENDS Integers, Sequences, FiniteSets, TLC

VARIABLES
    fn,        \* the entry point this run calls
    args,      \* its arguments
    image,     \* the decoded image(s) it works on
    codec,     \* the imaging library: quality -> encoded size, and I/O faults
    disk,      \* the names of the files in the output directory
    env,       \* the source file and the output folder as the call meets them
    pc,        \* "call" before the entry point runs, "done" after it returned
    result,    \* what the call did and returned
    window,    \* main.py: the window's list attribute and its start button
    heap,      \* main.py: the list objects the window and its workers hold
    threads    \* main.py: the workers started so far, oldest first

app == <<window, heap, threads>>
vars == <<fn, args, image, codec, disk, env, pc, result, window, heap, threads>>

\* an entry point called on its own: no window is open
NoWindow == window = <<>> /\ heap = <<>> /\ threads = <<>>

----------------------------------------------------------------------------
(* Python values *)

None == <<>>
Some(x) == <<x>>
IsNone(o) == o = <<>>
Val(o) == o[1]

Max(a, b) == IF a >= b THEN a ELSE b
Min(a, b) == IF a <= b THEN a ELSE b
Abs(a) == IF a >= 0 THEN a ELSE -a

\* int(n / d) for d > 0: Python's int() truncates toward zero
IntTrunc(n, d) == IF n >= 0 THEN n \div d ELSE -((-n) \div d)

RECURSIVE SumSeq(_)
SumSeq(s) == IF s = <<>> THEN 0 ELSE Head(s) + SumSeq(Tail(s))

\* Python floats are IEEE 754 doubles: every division and product is rounded
\* to the nearest number of 53 significant bits
MANTISSA_BITS == 53

\* int.bit_length() for n >= 0
RECURSIVE BitLength(_)
BitLength(n) == IF n = 0 THEN 0 ELSE 1 + BitLength(n \div 2)

\* 2^k mod h, by squaring
RECURSIVE Pow2Mod(_, _)
Pow2Mod(k, h) ==
    IF k = 0 THEN 1 % h
    ELSE LET half == Pow2Mod(k \div 2, h)
             square == (half * half) % h
         IN  IF k % 2 = 1 THEN (2 * square) % h ELSE square

\* the exponent a of w / h: 2^a <= w / h < 2^(a + 1), for w, h >= 1
RatioExponent(w, h) ==
    IF w >= h THEN BitLength(w \div h) - 1 ELSE -BitLength((h - 1) \div w)

\* what the double w / h falls short of the quotient, in units of
\* 1 / (h * 2^k): the double is m / 2^k with m of 53 bits, k = 52 - a, and m
\* is the quotient of w * 2^k by h rounded to the nearest; it falls short by
\* the remainder r when 2r < h, and not at all when r = 0 or it is rounded up
\* (2r = h cannot happen for h < 2^k)
QuotientShortfall(w, h) ==
    LET k == MANTISSA_BITS - 1 - RatioExponent(w, h)
        r == (w * Pow2Mod(k, h)) % h
    IN  IF 2 * r < h THEN r ELSE 0

\* variant: the product and the quotient are exact
ExactMulTrunc(n, w, h) == (n * w) \div h
\* int(n * (w / h)) for n, w, h >= 1, in doubles.  When n*w/h is not an
\* integer it is at least 1/h away from one, far more than the rounding
\* errors for the sizes of the model, and int() is the exact floor.  When it
\* is an integer N of s bits, the exact product of n and the double w / h is
\* N less n*r / (h * 2^k), and it is rounded to a double: back to N when that
\* is at most half a unit in the last place below N (2^(s-54), or 2^(s-55)
\* when N is a power of two), and to a double below N otherwise, which int()
\* truncates to N - 1.
FloatMulTrunc(n, w, h) ==
    IF (n * w) % h # 0 THEN (n * w) \div h
    ELSE LET N == (n * w) \div h
             a == RatioExponent(w, h)
             r == QuotientShortfall(w, h)
             s == BitLength(N)
             e == IF N = 2^(s - 1) THEN s - a - 3 ELSE s - a - 2
             back_to_N == IF e >= 0 THEN n * r <= h * 2^e
                                    ELSE n * r * 2^(-e) <= h
         IN  IF r = 0 \/ back_to_N THEN N ELSE N - 1

----------------------------------------------------------------------------
(* Bounds of the model *)

\* sizes (bytes) the library's encoder yields: one under, one over a 1 KB and 2 KB ceiling
SmallBytes == 1000
BigBytes == 3000
\* ceilings tried, in KB
MaxKb == 3
\* the quality up to which an encode is small (0: never small)
MaxThreshold == 96

\* slicer: axis lengths whose every variance profile is tried
MaxSmallLen == 4
\* slicer: an axis longer than twice the least search range (101) ...
WideLen == 101
\* ... and one whose spacing makes the search range exceed the least (260)
TallLen == 260
\* the length of the axis that is not cut
OtherLen == 2
\* slicer: piece counts
MaxCount == 4
\* the variance of a busy pixel line (a quiet one has 0 or 1)
HighVar == 6
\* grid slicer: image sides and the rows / columns asked for
MaxGridLen == 5
MaxGridCount == 3
\* stitcher: image widths and heights, images per call, the target width tried
MaxDim == 3
MaxHeight == 2
MaxImages == 3
MaxBatch == 10
\* merger: frames per source
MaxFrames == 2
\* sorter: paths per call
MaxPaths == 3
MaxGridImages == 4
\* the window: the worker runs of a behaviour, the files of one drop, the
\* items of the combine tab
MaxRuns == 2
MaxDrop == 1
MaxItems == 2
WideTarget == 5

----------------------------------------------------------------------------
(* The file system *)

\* os.path.exists(image_path), Image.open + img.load(), and the output folder
\* of a slicer call: there already, made by os.makedirs, or os.makedirs raises
Env(exists, decodes, folder) ==
    [exists |-> exists, decodes |-> decodes, folder |-> folder]
Sound == Env(TRUE, TRUE, "absent")
\* a sound source with every folder; a missing and an undecodable source
Envs == {Env(TRUE, TRUE, f) : f \in {"absent", "present", "uncreatable"}}
            \cup {Env(FALSE, TRUE, "absent"), Env(TRUE, FALSE, "absent")}

----------------------------------------------------------------------------
(* utils.py: save_compressed_image *)

DEFAULT_QUALITY == 95
JPEG_MIN_Q == 5
JPEG_MAX_Q == 90
PDF_MIN_Q == 10
PDF_MAX_Q == 95
BYTES_PER_KB == 1024
MERGE_MIN_Q == 10
MERGE_MAX_Q == 95

\* str.upper() / str.lower() on the strings the model passes
Upper(s) ==
    CASE s = "jpeg" -> "JPEG"
      [] s = "png" -> "PNG"
      [] s = "pdf" -> "PDF"
      [] OTHER -> s

Lower(s) ==
    CASE s = ".JPG" -> ".jpg"
      [] s = ".JPEG" -> ".jpeg"
      [] s = ".PNG" -> ".png"
      [] s = ".PDF" -> ".pdf"
      [] OTHER -> s

\* lines 19-30: the format, from output_format when truthy, else from the extension
DetermineFormat(output_format, output_ext) ==
    LET ext == Lower(output_ext)
    IN  IF ~IsNone(output_format) /\ Val(output_format) # ""
        THEN Upper(Val(output_format))
        ELSE IF ext \in {".jpg", ".jpeg"} THEN "JPEG"
        ELSE IF ext = ".png" THEN "PNG"
        ELSE IF ext = ".pdf" THEN "PDF"
        ELSE "JPEG"

\* variant: only None counts as no ceiling
NoCeilingLoose(max_kb) == IsNone(max_kb)
\* `not max_kb or max_kb <= 0`
NoCeiling(max_kb) == IsNone(max_kb) \/ Val(max_kb) = 0 \/ Val(max_kb) <= 0

\* image.save(buf, fmt, quality=q); buf.tell(): the size the library yields.
\* The mapping is small up to quality c.thr and big above it, except at
\* c.spike, where it is the other way round (c.spike = 0: nowhere).
EncodedSize(c, q) ==
    IF (q <= c.thr) # (q = c.spike) THEN SmallBytes ELSE BigBytes

\* variant: a size that fits moves min_q up by a quarter of the range only
SearchStepQuarter(min_q, max_q, best_q, mid_q, fits) ==
    IF fits
    THEN [min_q |-> min_q + (mid_q - min_q) \div 2 + 1, max_q |-> max_q,
          best_q |-> mid_q]
    ELSE [min_q |-> min_q, max_q |-> mid_q - 1, best_q |-> best_q]

\* variant: the search goes down also when the size fits
SearchStepDown(min_q, max_q, best_q, mid_q, fits) ==
    IF fits
    THEN [min_q |-> min_q, max_q |-> mid_q - 1, best_q |-> mid_q]
    ELSE [min_q |-> min_q, max_q |-> mid_q - 1, best_q |-> best_q]
\* one turn of the binary search: the new (min_q, max_q, best_q)
SearchStep(min_q, max_q, best_q, mid_q, fits) ==
    IF fits
    THEN [min_q |-> mid_q + 1, max_q |-> max_q, best_q |-> mid_q]
    ELSE [min_q |-> min_q, max_q |-> mid_q - 1, best_q |-> best_q]

\* the while loop: returns best_q and the qualities it encoded at, in order
RECURSIVE QualitySearch(_, _, _, _, _, _)
QualitySearch(c, target_bytes, min_q, max_q, best_q, probes) ==
    IF ~(min_q <= max_q)
    THEN [best_q |-> best_q, probes |-> probes]
    ELSE LET mid_q == (min_q + max_q) \div 2
             s == SearchStep(min_q, max_q, best_q, mid_q,
                             EncodedSize(c, mid_q) <= target_bytes)
         IN  QualitySearch(c, target_bytes, s.min_q, s.max_q, s.best_q,
                           Append(probes, mid_q))

Encode(q, to) == [quality |-> q, to |-> to]
Probes(qs) == [i \in 1..Len(qs) |-> Encode(qs[i], "buf")]
File(fmt, q, size) == Some([fmt |-> fmt, quality |-> q, size |-> size])
Saved(fmt, file, encodes) ==
    [fmt |-> fmt, raised |-> FALSE, file |-> file, encodes |-> encodes]

\* variant: the fallback is the highest quality of the range
InitialBestMax(min_q, max_q) == max_q
\* line 59 / line 110: best_q = min_q
InitialBest(min_q, max_q) == min_q

\* variant: the PDF branch running the JPEG procedure (probe at 95, [5,90])
SavePdfSameAsJpeg(c, max_kb) ==
    IF NoCeiling(max_kb)
    THEN Saved("PDF", File("PDF", DEFAULT_QUALITY, EncodedSize(c, DEFAULT_QUALITY)),
               <<Encode(DEFAULT_QUALITY, "path")>>)
    ELSE LET target_bytes == Val(max_kb) * BYTES_PER_KB
         IN  IF EncodedSize(c, DEFAULT_QUALITY) <= target_bytes
             THEN Saved("PDF", File("PDF", DEFAULT_QUALITY, EncodedSize(c, DEFAULT_QUALITY)),
                        <<Encode(DEFAULT_QUALITY, "buf")>>)
             ELSE LET s == QualitySearch(c, target_bytes, JPEG_MIN_Q, JPEG_MAX_Q,
                                         InitialBest(JPEG_MIN_Q, JPEG_MAX_Q), <<>>)
                  IN  Saved("PDF", File("PDF", s.best_q, EncodedSize(c, s.best_q)),
                            Probes(<<DEFAULT_QUALITY>> \o s.probes)
                                \o <<Encode(s.best_q, "path")>>)
\* lines 38-75
SavePdf(c, max_kb) ==
    IF NoCeiling(max_kb)
    THEN Saved("PDF", File("PDF", DEFAULT_QUALITY, EncodedSize(c, DEFAULT_QUALITY)),
               <<Encode(DEFAULT_QUALITY, "path")>>)
    ELSE LET target_bytes == Val(max_kb) * BYTES_PER_KB
             s == QualitySearch(c, target_bytes, PDF_MIN_Q, PDF_MAX_Q,
                                InitialBest(PDF_MIN_Q, PDF_MAX_Q), <<>>)
         IN  Saved("PDF", File("PDF", s.best_q, EncodedSize(c, s.best_q)),
                   Probes(s.probes) \o <<Encode(s.best_q, "path")>>)

\* lines 78-83: PNG takes no quality; the ceiling is ignored
SavePng(c, max_kb) ==
    Saved("PNG", File("PNG", 0, c.png_size), <<Encode(0, "path")>>)

\* lines 86-122
SaveJpeg(c, max_kb) ==
    IF NoCeiling(max_kb)
    THEN Saved("JPEG", File("JPEG", DEFAULT_QUALITY, EncodedSize(c, DEFAULT_QUALITY)),
               <<Encode(DEFAULT_QUALITY, "path")>>)
    ELSE LET target_bytes == Val(max_kb) * BYTES_PER_KB
         IN  IF EncodedSize(c, DEFAULT_QUALITY) <= target_bytes
             THEN \* the probe's bytes are written as they are
                  Saved("JPEG", File("JPEG", DEFAULT_QUALITY, EncodedSize(c, DEFAULT_QUALITY)),
                        <<Encode(DEFAULT_QUALITY, "buf")>>)
             ELSE LET s == QualitySearch(c, target_bytes, JPEG_MIN_Q, JPEG_MAX_Q,
                                         InitialBest(JPEG_MIN_Q, JPEG_MAX_Q), <<>>)
                  IN  Saved("JPEG", File("JPEG", s.best_q, EncodedSize(c, s.best_q)),
                            Probes(<<DEFAULT_QUALITY>> \o s.probes)
                                \o <<Encode(s.best_q, "path")>>)

\* the whole function.  raises: the library's save raises in this call (the
\* exception leaves the function, nothing is written).
save_compressed_image(output_ext, max_kb, output_format, c, raises) ==
    LET fmt == DetermineFormat(output_format, output_ext)
    IN  IF fmt \notin {"PDF", "PNG", "JPEG"}
        THEN \* no branch matches: the function falls off its end
             Saved(fmt, None, <<>>)
        ELSE IF raises
        THEN [fmt |-> fmt, raised |-> TRUE, file |-> None, encodes |-> <<>>]
        ELSE CASE fmt = "PDF" -> SavePdf(c, max_kb)
               [] fmt = "PNG" -> SavePng(c, max_kb)
               [] fmt = "JPEG" -> SaveJpeg(c, max_kb)

----------------------------------------------------------------------------
(* The encoder on its own *)

Ceilings == {None} \cup {Some(k) : k \in -1..MaxKb}
Codecs ==
    [thr : 0..MaxThreshold, spike : {0, JPEG_MIN_Q, PDF_MIN_Q, 50, DEFAULT_QUALITY},
     png_size : {BigBytes}, fail_at : {0, 1}]
EncodeCalls ==
    [output_format : {Some("JPEG"), Some("PNG"), Some("PDF"), Some("pdf"), Some("WEBP")},
     output_ext : {".jpg"}, max_kb : Ceilings]
    \cup [output_format : {None, Some("")},
          output_ext : {".jpg", ".JPEG", ".png", ".pdf", ".bmp"}, max_kb : Ceilings]

InitEncode ==
    /\ fn = "save_compressed_image"
    /\ NoWindow
    /\ args \in EncodeCalls
    /\ image = None
    /\ disk = {}
    /\ env = Sound
    /\ codec \in Codecs
    /\ pc = "call"
    /\ result = None

SaveCompressedImage ==
    /\ fn = "save_compressed_image"
    /\ pc = "call"
    /\ result' = Some(save_compressed_image(args.output_ext, args.max_kb,
                                            args.output_format, codec,
                                            codec.fail_at = 1))
    /\ pc' = "done"
    /\ UNCHANGED <<fn, args, image, codec, disk, env, app>>

NextEncode == SaveCompressedImage
SpecEncode == InitEncode /\ [][NextEncode]_vars

----------------------------------------------------------------------------
(* slicer.py: _is_boundary_solid, _find_best_cut, slice_image *)

MIN_SEARCH_RANGE == 50
\* DIST_WEIGHT = 0.1, as the divisor 10
DIST_WEIGHT_DIV == 10

\* float('inf')
Inf == -1
ScoreLess(a, b) == a # Inf /\ (b = Inf \/ a < b)

AxisLimit(img, axis) == IF axis = "horizontal" THEN img.height ELSE img.width

\* the summed variance of the 1-pixel line at pos, inf outside the image
IsBoundarySolid(img, pos, axis) ==
    IF pos < 0 THEN Inf
    ELSE IF pos >= AxisLimit(img, axis) THEN Inf
    ELSE img.variance[pos]

\* weighted_score = variance + dist * DIST_WEIGHT for the target t_num / t_den,
\* scaled by DIST_WEIGHT_DIV * t_den to stay an integer
WeightedScore(img, pos, axis, t_num, t_den) ==
    LET variance == IsBoundarySolid(img, pos, axis)
        dist_scaled == Abs(pos * t_den - t_num)
    IN  IF variance = Inf THEN Inf
        ELSE DIST_WEIGHT_DIV * t_den * variance + dist_scaled

\* the positions `for pos in range(start_pos, end_pos)` visits
ScanRange(start_pos, end_pos) == start_pos..(end_pos - 1)

\* one turn of the for loop, at pos: the new (best_pos, min_score); best_pos
\* is None while it still is target_pos
ScanStep(img, axis, t_num, t_den, pos, best_pos, min_score) ==
    LET weighted_score == WeightedScore(img, pos, axis, t_num, t_den)
    IN  IF ScoreLess(weighted_score, min_score)
        THEN [best_pos |-> Some(pos), min_score |-> weighted_score]
        ELSE [best_pos |-> best_pos, min_score |-> min_score]

\* variant: a later position replaces best_pos also with an equal score
KeepLast(lower, upper) ==
    IF ScoreLess(lower.min_score, upper.min_score) THEN lower
    ELSE IF upper.min_score = Inf THEN lower ELSE upper

\* what the loop holds after the turns of lower and then those of upper: a
\* later position replaces best_pos only with a strictly smaller score
KeepBest(lower, upper) ==
    IF ScoreLess(upper.min_score, lower.min_score) THEN upper ELSE lower

\* the for loop over the positions of lo..hi that the range holds, in
\* ascending order, computed by halves: (best_pos, min_score) at its end
RECURSIVE ScanCuts(_, _, _, _, _, _, _)
ScanCuts(img, axis, t_num, t_den, lo, hi, end_pos) ==
    IF lo > hi
    THEN [best_pos |-> None, min_score |-> Inf]
    ELSE IF lo = hi
    THEN IF lo \in ScanRange(lo, end_pos)
         THEN ScanStep(img, axis, t_num, t_den, lo, None, Inf)
         ELSE [best_pos |-> None, min_score |-> Inf]
    ELSE LET mid == (lo + hi) \div 2
         IN  KeepBest(ScanCuts(img, axis, t_num, t_den, lo, mid, end_pos),
                      ScanCuts(img, axis, t_num, t_den, mid + 1, hi, end_pos))

StartPos(t_num, t_den, search_range) ==
    Max(0, IntTrunc(t_num - search_range * t_den, t_den))
EndPos(limit, t_num, t_den, search_range) ==
    Min(limit - 1, IntTrunc(t_num + search_range * t_den, t_den))

\* _find_best_cut(image, target_pos = t_num / t_den, axis, search_range)
FindBestCut(img, t_num, t_den, axis, search_range) ==
    LET limit == AxisLimit(img, axis)
        start_pos == StartPos(t_num, t_den, search_range)
        end_pos == EndPos(limit, t_num, t_den, search_range)
        best_pos == ScanCuts(img, axis, t_num, t_den, start_pos, end_pos,
                             end_pos).best_pos
    IN  IF IsNone(best_pos) THEN IntTrunc(t_num, t_den) ELSE Val(best_pos)

\* max(50, int(approx_length * 0.4)), approx_length = total_length / count
SearchRange(total_length, count) ==
    Max(MIN_SEARCH_RANGE, IntTrunc(4 * total_length, DIST_WEIGHT_DIV * count))

\* lines 171-180: the cut of the i-th interior boundary, with the call that
\* found it in content-aware mode
CutCall(img, total_length, count, smart_mode, axis, i) ==
    LET search_range == SearchRange(total_length, count)
    IN  [i |-> i, t_num |-> i * total_length, t_den |-> count,
         search_range |-> search_range, smart |-> smart_mode,
         final_pos |-> IF smart_mode
                       THEN FindBestCut(img, i * total_length, count, axis, search_range)
                       ELSE IntTrunc(i * total_length, count)]

CutCalls(img, total_length, count, smart_mode, axis) ==
    IF count > 1
    THEN [i \in 1..(count - 1) |-> CutCall(img, total_length, count, smart_mode, axis, i)]
    ELSE <<>>

RECURSIVE SortedSeq(_)
SortedSeq(S) ==
    IF S = {} THEN <<>>
    ELSE LET m == CHOOSE x \in S : \A y \in S : x <= y
         IN  <<m>> \o SortedSeq(S \ {m})

\* a list in ascending order, duplicates kept
RECURSIVE SortedList(_)
SortedList(seq) ==
    IF seq = <<>> THEN <<>>
    ELSE LET m == CHOOSE i \in 1..Len(seq) : \A j \in 1..Len(seq) : seq[i] <= seq[j]
         IN  <<seq[m]>> \o SortedList(SubSeq(seq, 1, m - 1) \o SubSeq(seq, m + 1, Len(seq)))

\* variant: the duplicates stay in the list
CutPointsWithDuplicates(calls, total_length) ==
    SortedList(<<0>> \o [i \in 1..Len(calls) |-> calls[i].final_pos] \o <<total_length>>)
\* variant: total_length is not appended
CutPointsNoEnd(calls, total_length) ==
    SortedSeq({0} \cup {calls[i].final_pos : i \in 1..Len(calls)})
\* lines 166-186: [0] + cuts + [total_length], sorted, duplicates removed
CutPoints(calls, total_length) ==
    SortedSeq({0} \cup {calls[i].final_pos : i \in 1..Len(calls)} \cup {total_length})

\* lines 201-212 (and stitcher.py 161-174): the format handed to the encoder
FmtArg(output_format) ==
    IF output_format = "PNG" THEN "PNG"
    ELSE IF output_format = "PDF" THEN "PDF"
    ELSE "JPEG"
ExtOf(output_format) ==
    IF output_format = "PNG" THEN ".png"
    ELSE IF output_format = "PDF" THEN ".pdf"
    ELSE ".jpg"

\* lines 225-239: the crop box and the file name of segment i (0-based)
SliceBox(img, direction, start, end) ==
    IF direction = "horizontal"
    THEN [left |-> 0, upper |-> start, right |-> img.width, lower |-> end]
    ELSE [left |-> start, upper |-> 0, right |-> end, lower |-> img.height]
SliceTag(direction) == IF direction = "horizontal" THEN "_" ELSE "_v"
\* the decimal digits of n >= 0, and n written with :02d
RECURSIVE Digits(_)
Digits(n) == IF n < 10 THEN <<n>> ELSE Append(Digits(n \div 10), n % 10)
Pad2(n) == IF n < 10 THEN <<0, n>> ELSE Digits(n)
\* lines 236-239: <base>_<NN><ext> or <base>_v<NN><ext>, number is i + 1
SliceName(direction, ext, number) ==
    [tag |-> SliceTag(direction), digits |-> Pad2(number), ext |-> ext]

\* lines 217-244 from segment i on: n saves were made before; the save that
\* codec.fail_at numbers raises, and the except clause ends the call
RECURSIVE SliceLoop(_, _, _, _, _, _)
SliceLoop(img, a, c, cut_points, i, saved) ==
    IF i > Len(cut_points) - 1
    THEN [ok |-> TRUE, saved |-> saved]
    ELSE LET start == cut_points[i]
             end == cut_points[i + 1]
         IN  IF end <= start
             THEN SliceLoop(img, a, c, cut_points, i + 1, saved)
             ELSE LET save == save_compressed_image(ExtOf(a.output_format), a.max_kb,
                                  Some(FmtArg(a.output_format)), c,
                                  c.fail_at = Len(saved) + 1)
                  IN  IF save.raised
                      THEN [ok |-> FALSE, saved |-> saved]
                      ELSE SliceLoop(img, a, c, cut_points, i + 1,
                               Append(saved,
                                   [index |-> i, start |-> start, end |-> end,
                                    name |-> SliceName(a.direction,
                                                 ExtOf(a.output_format), i),
                                    box |-> SliceBox(img, a.direction, start, end),
                                    tag |-> SliceTag(a.direction),
                                    ext |-> ExtOf(a.output_format),
                                    save |-> save]))

\* what slice_image returns before it reaches the cuts
SliceFailed(error, opened) ==
    [ok |-> FALSE, error |-> error, opened |-> opened, made_dir |-> FALSE,
     total_length |-> 0, calls |-> <<>>, cut_points |-> <<>>, saved |-> <<>>]

\* slice_image(image_path, output_dir, count, smart_mode, target_width, max_kb,
\*             direction, output_format, custom_name); img is the image that
\* Image.open and the optional resize to target_width yield when they succeed
slice_image(e, img, a, c) ==
    IF ~e.exists THEN SliceFailed("File not found", FALSE)
    ELSE IF ~e.decodes THEN SliceFailed("Error slicing image", TRUE)
    ELSE LET total_length == AxisLimit(img, a.direction)
             calls == CutCalls(img, total_length, a.count, a.smart_mode, a.direction)
             cut_points == CutPoints(calls, total_length)
             loop == SliceLoop(img, a, c, cut_points, 1, <<>>)
         IN  IF e.folder = "uncreatable"
             THEN [ok |-> FALSE, error |-> "Could not create folder",
                   opened |-> TRUE, made_dir |-> FALSE,
                   total_length |-> total_length, calls |-> calls,
                   cut_points |-> cut_points, saved |-> <<>>]
             ELSE [ok |-> loop.ok,
                   error |-> IF loop.ok THEN "" ELSE "Error slicing image",
                   opened |-> TRUE, made_dir |-> e.folder = "absent",
                   total_length |-> total_length, calls |-> calls,
                   cut_points |-> cut_points, saved |-> loop.saved]

----------------------------------------------------------------------------
(* The slicer on its own *)

VarLevels == {0, 1, HighVar}
\* every variance profile of a short axis; a long axis is uniform but for one
\* quiet line
Profiles(L) ==
    IF L <= MaxSmallLen
    THEN [0..(L - 1) -> VarLevels]
    ELSE {[p \in 0..(L - 1) |-> IF p = q THEN 0 ELSE hi] :
              q \in 0..(L - 1), hi \in VarLevels}
AxisImage(direction, L, profile) ==
    IF direction = "horizontal"
    THEN [width |-> OtherLen, height |-> L, variance |-> profile]
    ELSE [width |-> L, height |-> OtherLen, variance |-> profile]

\* the library as the slicer's saves meet it: everything fits / nothing fits
\* / the first or the second save raises
SliceCodecs ==
    {[thr |-> t, spike |-> 0, png_size |-> BigBytes, fail_at |-> f] :
        t \in {0, MaxThreshold}, f \in {0}}
    \cup {[thr |-> MaxThreshold, spike |-> 0, png_size |-> BigBytes, fail_at |-> f] :
             f \in 1..2}
SliceSaves ==
    [output_format : {"AUTO", "PDF"}, max_kb : {Some(1)}]
    \cup [output_format : {"AUTO", "PNG"}, max_kb : {None}]

SliceArgs(dirs, counts, modes, saves) ==
    {[direction |-> d, count |-> k, smart_mode |-> m,
      output_format |-> sv.output_format, max_kb |-> sv.max_kb] :
        d \in dirs, k \in counts, m \in modes, sv \in saves}

InitSlice ==
    /\ fn = "slice_image"
    /\ NoWindow
    /\ disk = {}
    /\ pc = "call"
    /\ result = None
    /\ \/ \* short axes: every profile in content-aware mode
          /\ env = Sound
          /\ args \in SliceArgs({"horizontal", "vertical"}, 1..MaxCount, {TRUE},
                                {[output_format |-> "AUTO", max_kb |-> None]})
          /\ \E L \in 1..MaxSmallLen :
                 image \in {AxisImage(args.direction, L, pr) : pr \in Profiles(L)}
          /\ codec \in {c \in SliceCodecs : c.thr = MaxThreshold}
       \/ \* naive mode reads no pixel; every source and folder, every way of
          \* saving
          /\ env \in Envs
          /\ args \in SliceArgs({"horizontal", "vertical"}, 1..MaxCount, {FALSE},
                                SliceSaves)
          /\ \E L \in (1..(2 * MaxSmallLen)) \cup {WideLen, TallLen} :
                 image = AxisImage(args.direction, L, [p \in 0..(L - 1) |-> 0])
          /\ codec \in SliceCodecs
       \/ \* long axes, content-aware
          /\ env = Sound
          /\ args \in SliceArgs({"horizontal"}, 2..MaxCount, {TRUE},
                                {[output_format |-> "AUTO", max_kb |-> None]})
          /\ \E L \in {WideLen, TallLen} :
                 image \in {AxisImage(args.direction, L, pr) : pr \in Profiles(L)}
          /\ codec = [thr |-> MaxThreshold, spike |-> 0, png_size |-> BigBytes,
                      fail_at |-> 0]
       \/ \* a count below one: no cut is asked for
          /\ env = Sound
          /\ args \in SliceArgs({"horizontal", "vertical"}, {-1, 0}, {FALSE, TRUE},
                                {[output_format |-> "AUTO", max_kb |-> None]})
          /\ \E L \in 1..MaxSmallLen :
                 image = AxisImage(args.direction, L, [p \in 0..(L - 1) |-> 0])
          /\ codec = [thr |-> MaxThreshold, spike |-> 0, png_size |-> BigBytes,
                      fail_at |-> 0]

SliceImage ==
    /\ fn = "slice_image"
    /\ pc = "call"
    /\ result' = Some(slice_image(env, image, args, codec))
    /\ pc' = "done"
    /\ UNCHANGED <<fn, args, image, codec, disk, env, app>>

NextSlice == SliceImage
SpecSlice == InitSlice /\ [][NextSlice]_vars

----------------------------------------------------------------------------
(* slicer.py: slice_grid_image *)

\* int(i * cell) with cell = total / n, n > 0
GridEdge(i, n, total) == IntTrunc(i * total, n)

\* variant: the far edge is the near edge plus the truncated cell size
GridFarFromCellSize(i, n, total) ==
    IF i < n - 1 THEN GridEdge(i, n, total) + IntTrunc(total, n) ELSE total
\* lines 123-124: the far edge of cell i of n; the last cell is forced to the
\* image edge
GridFar(i, n, total) ==
    IF i < n - 1 THEN GridEdge(i + 1, n, total) ELSE total

\* lines 120-126
GridBox(img, rows, cols, r, c) ==
    [left |-> GridEdge(c, cols, img.width),
     upper |-> GridEdge(r, rows, img.height),
     right |-> GridFar(c, cols, img.width),
     lower |-> GridFar(r, rows, img.height)]

\* lines 118-135 from cell (r, c) on, rows and columns counted from 0
RECURSIVE GridLoop(_, _, _, _, _, _)
GridLoop(img, a, c, r, col, saved) ==
    IF r >= a.rows
    THEN [ok |-> TRUE, saved |-> saved]
    ELSE IF col >= a.cols
    THEN GridLoop(img, a, c, r + 1, 0, saved)
    ELSE LET save == save_compressed_image(ExtOf(a.output_format), a.max_kb,
                         Some(FmtArg(a.output_format)), c,
                         c.fail_at = Len(saved) + 1)
         IN  IF save.raised
             THEN [ok |-> FALSE, saved |-> saved]
             ELSE GridLoop(img, a, c, r, col + 1,
                      Append(saved,
                          [r |-> r, c |-> col,
                           box |-> GridBox(img, a.rows, a.cols, r, col),
                           ext |-> ExtOf(a.output_format),
                           save |-> save]))

\* what slice_grid_image returns before it reaches the cells
GridFailed(error, opened) ==
    [ok |-> FALSE, error |-> error, opened |-> opened, made_dir |-> FALSE,
     saved |-> <<>>]

\* slice_grid_image(image_path, output_dir, rows, cols, target_width, max_kb,
\*                  output_format, custom_name); img is the image that
\* Image.open and the optional resize yield when they succeed.  cols = 0 or
\* rows = 0 raises ZeroDivisionError at lines 86-87, after the source was
\* opened and before the folder is made; the except clause returns False.
\* Negative rows or cols divide without error and leave a loop empty.
slice_grid_image(e, img, a, c) ==
    IF ~e.exists THEN GridFailed("File not found", FALSE)
    ELSE IF ~e.decodes THEN GridFailed("Error grid slicing", TRUE)
    ELSE IF a.cols = 0 \/ a.rows = 0 THEN GridFailed("Error grid slicing", TRUE)
    ELSE IF e.folder = "uncreatable" THEN GridFailed("Could not create folder", TRUE)
    ELSE LET loop == GridLoop(img, a, c, 0, 0, <<>>)
         IN  [ok |-> loop.ok, error |-> IF loop.ok THEN "" ELSE "Error grid slicing",
              opened |-> TRUE, made_dir |-> e.folder = "absent",
              saved |-> loop.saved]

----------------------------------------------------------------------------
(* The grid slicer on its own *)

GridImages == [width : 1..MaxGridLen, height : 1..MaxGridLen]
GridArgs ==
    {[rows |-> r, cols |-> c, output_format |-> sv.output_format,
      max_kb |-> sv.max_kb] :
        r \in -1..MaxGridCount, c \in -1..MaxGridCount, sv \in SliceSaves}

InitGrid ==
    /\ fn = "slice_grid_image"
    /\ NoWindow
    /\ disk = {}
    /\ pc = "call"
    /\ result = None
    /\ args \in GridArgs
    /\ image \in GridImages
    /\ codec \in SliceCodecs
    /\ env \in IF image.width = 1 THEN Envs ELSE {Sound}

SliceGridImage ==
    /\ fn = "slice_grid_image"
    /\ pc = "call"
    /\ result' = Some(slice_grid_image(env, image, args, codec))
    /\ pc' = "done"
    /\ UNCHANGED <<fn, args, image, codec, disk, env, app>>

NextGrid == SliceGridImage
SpecGrid == InitGrid /\ [][NextGrid]_vars

----------------------------------------------------------------------------
(* stitcher.py: _stitch_vertical, _stitch_horizontal, _stitch_grid *)

RECURSIVE MaxSeq(_)
MaxSeq(s) == IF Len(s) = 1 THEN s[1] ELSE Max(Head(s), MaxSeq(Tail(s)))
Widths(images) == [j \in 1..Len(images) |-> images[j].width]
Heights(images) == [j \in 1..Len(images) |-> images[j].height]
Size(w, h) == [width |-> w, height |-> h]

\* `if target_width:` and the resize that follows: the final size of a canvas
Truthy(target_width) == ~IsNone(target_width) /\ Val(target_width) # 0
FinalSize(canvas, target_width) ==
    IF Truthy(target_width)
    THEN Size(Val(target_width),
              FloatMulTrunc(Val(target_width), canvas.height, canvas.width))
    ELSE canvas

Paste(j, x, y, w, h) == [img |-> j, x |-> x, y |-> y, width |-> w, height |-> h]
Stitched(canvas, pastes, target_width) ==
    Some([canvas |-> canvas, pastes |-> pastes,
          size |-> FinalSize(canvas, target_width)])

\* variant: the image is pushed to the right edge
XOffsetRight(max_width, width) == max_width - width
\* line 27: the image is centred
XOffset(max_width, width) == (max_width - width) \div 2

\* lines 24-29 from image j on
RECURSIVE VerticalPastes(_, _, _, _, _)
VerticalPastes(images, max_width, j, current_y, pastes) ==
    IF j > Len(images) THEN pastes
    ELSE VerticalPastes(images, max_width, j + 1, current_y + images[j].height,
             Append(pastes, Paste(j, XOffset(max_width, images[j].width), current_y,
                                  images[j].width, images[j].height)))

StitchVertical(images, target_width) ==
    IF images = <<>> THEN None
    ELSE LET max_width == MaxSeq(Widths(images))
             total_height == SumSeq(Heights(images))
         IN  Stitched(Size(max_width, total_height),
                      VerticalPastes(images, max_width, 1, 0, <<>>), target_width)

\* lines 52-61: the size an image is pasted at
ResizedWidth(img, max_height) ==
    IF img.height # max_height
    THEN FloatMulTrunc(max_height, img.width, img.height)
    ELSE img.width

\* lines 66-69 from image j on
RECURSIVE HorizontalPastes(_, _, _, _, _)
HorizontalPastes(images, max_height, j, current_x, pastes) ==
    IF j > Len(images) THEN pastes
    ELSE LET w == ResizedWidth(images[j], max_height)
         IN  HorizontalPastes(images, max_height, j + 1, current_x + w,
                 Append(pastes, Paste(j, current_x, 0, w, max_height)))

StitchHorizontal(images, target_width) ==
    IF images = <<>> THEN None
    ELSE LET max_height == MaxSeq(Heights(images))
             total_width ==
                 SumSeq([j \in 1..Len(images) |-> ResizedWidth(images[j], max_height)])
         IN  Stitched(Size(total_width, max_height),
                      HorizontalPastes(images, max_height, 1, 0, <<>>), target_width)

\* variant: rows and columns swapped
GridPosSwapped(r, c, ref_w, ref_h) == [x |-> r * ref_w, y |-> c * ref_h]
\* lines 114-115
GridPos(r, c, ref_w, ref_h) == [x |-> c * ref_w, y |-> r * ref_h]

\* lines 102-118 from cell (r, c) on; idx counts from 0.  The break leaves
\* the inner loop only: the outer loop goes on to the next row.
RECURSIVE GridPastes(_, _, _, _, _, _, _, _)
GridPastes(used_images, rows, cols, ref_w, ref_h, r, c, pastes) ==
    LET idx == Len(pastes)
    IN  IF r >= rows THEN pastes
        ELSE IF c >= cols \/ idx >= Len(used_images)
        THEN GridPastes(used_images, rows, cols, ref_w, ref_h, r + 1, 0, pastes)
        ELSE LET pos == GridPos(r, c, ref_w, ref_h)
             IN  GridPastes(used_images, rows, cols, ref_w, ref_h, r, c + 1,
                     Append(pastes, Paste(idx + 1, pos.x, pos.y, ref_w, ref_h)))

StitchGrid(images, rows0, cols0, target_width) ==
    IF images = <<>> THEN None
    ELSE LET rows == IF rows0 <= 0 THEN 1 ELSE rows0
             cols == IF cols0 <= 0 THEN 1 ELSE cols0
             ref_w == images[1].width
             ref_h == images[1].height
             count == Min(Len(images), rows * cols)
             used_images == SubSeq(images, 1, count)
         IN  Stitched(Size(ref_w * cols, ref_h * rows),
                      GridPastes(used_images, rows, cols, ref_w, ref_h, 0, 0, <<>>),
                      target_width)

----------------------------------------------------------------------------
(* stitcher.py: stitch_images *)

\* image_paths[start:stop] as the positions (from 1) it holds; a slice stops
\* at the end of the list
PySlice(n, start, stop) == [k \in 1..(Min(stop, n) - Min(start, n)) |-> start + k]

\* variant: one more group gets the extra image
GroupCountOneMore(avg, remainder, i) == avg + (IF i <= remainder THEN 1 ELSE 0)
\* line 149
GroupCount(avg, remainder, i) == avg + (IF i < remainder THEN 1 ELSE 0)

\* variant: the next group starts avg images further
NextStartByAvg(start, count, avg) == start + avg
\* line 151
NextStart(start, count, avg) == start + count

\* lines 147-151 from group i on (i counts from 0): the groups, as sequences
\* of positions in image_paths
RECURSIVE SplitGroups(_, _, _, _, _, _, _)
SplitGroups(n, split_count, avg, remainder, i, start, groups) ==
    IF i >= split_count THEN groups
    ELSE LET count == GroupCount(avg, remainder, i)
         IN  SplitGroups(n, split_count, avg, remainder, i + 1,
                 NextStart(start, count, avg),
                 Append(groups, PySlice(n, start, start + count)))

\* variant: two groups are not split
GroupsFromThree(n, mode, split_count) ==
    IF mode = "grid" \/ split_count <= 2 THEN <<[k \in 1..n |-> k]>>
    ELSE SplitGroups(n, split_count, n \div split_count, n % split_count, 0, 0, <<>>)
\* lines 139-153
Groups(n, mode, split_count) ==
    IF mode = "grid" THEN <<[k \in 1..n |-> k]>>
    ELSE IF split_count > 1
    THEN SplitGroups(n, split_count, n \div split_count, n % split_count, 0, 0, <<>>)
    ELSE <<[k \in 1..n |-> k]>>

\* lines 180-186: the images of a group that Image.open could open
RECURSIVE Opened(_, _)
Opened(paths, group) ==
    IF group = <<>> THEN <<>>
    ELSE (IF paths[Head(group)].readable THEN <<Head(group)>> ELSE <<>>)
             \o Opened(paths, Tail(group))

\* Image.open reads the header only: the pixels are decoded when the image is
\* first pasted or resized (lines 28, 56, 68, 112, 116), and a file whose
\* data is damaged raises there.  The images a mode touches:
Touched(images, a) ==
    CASE a.mode \in {"vertical", "horizontal"} -> images
      [] a.mode = "grid" ->
             LET rows == IF a.rows <= 0 THEN 1 ELSE a.rows
                 cols == IF a.cols <= 0 THEN 1 ELSE a.cols
             IN  SubSeq(images, 1, Min(Len(images), rows * cols))
      [] OTHER -> <<>>
\* variant: a damaged image is pasted without an error
LoadNeverRaises(images, a) == FALSE
LoadRaises(images, a) ==
    \E j \in 1..Len(Touched(images, a)) : ~Touched(images, a)[j].loads

\* lines 192-197
StitchByMode(images, a) ==
    CASE a.mode = "vertical" -> StitchVertical(images, a.target_width)
      [] a.mode = "horizontal" -> StitchHorizontal(images, a.target_width)
      [] a.mode = "grid" -> StitchGrid(images, a.rows, a.cols, a.target_width)
      [] OTHER -> None

\* lines 200-208: stitched_<mode>_<date>_p<N>[_<counter>]<ext>, a name is the
\* pair of N and the counter (0: no suffix)
Name(p, counter) == [p |-> p, counter |-> counter]
\* variant: the name with the first suffix is taken unseen
FreeNameOnce(files, p, filename, counter) ==
    IF filename \in files THEN Name(p, counter) ELSE filename
RECURSIVE FreeName(_, _, _, _)
FreeName(files, p, filename, counter) ==
    IF filename \in files
    THEN FreeName(files, p, Name(p, counter), counter + 1)
    ELSE filename

\* lines 176-213 from group i on (i counts from 1)
RECURSIVE StitchLoop(_, _, _, _, _, _, _)
StitchLoop(paths, a, c, groups, i, files, sheets) ==
    IF i > Len(groups)
    THEN [ok |-> TRUE, sheets |-> sheets, files |-> files]
    ELSE LET from == Opened(paths, groups[i])
             images == [k \in 1..Len(from) |-> paths[from[k]]]
             result_img == StitchByMode(images, a)
         IN  IF groups[i] = <<>> \/ from = <<>>
             THEN StitchLoop(paths, a, c, groups, i + 1, files, sheets)
             ELSE IF LoadRaises(images, a)
             THEN [ok |-> FALSE, sheets |-> sheets, files |-> files]
             ELSE IF IsNone(result_img)
             THEN StitchLoop(paths, a, c, groups, i + 1, files, sheets)
             ELSE LET filename == FreeName(files, i, Name(i, 0), 1)
                      save == save_compressed_image(ExtOf(a.output_format), a.max_kb,
                                  Some(FmtArg(a.output_format)), c,
                                  c.fail_at = Len(sheets) + 1)
                  IN  IF save.raised
                      THEN [ok |-> FALSE, sheets |-> sheets, files |-> files]
                      ELSE StitchLoop(paths, a, c, groups, i + 1,
                               files \cup {filename},
                               Append(sheets,
                                   [p |-> i, from |-> from, images |-> images,
                                    stitched |-> Val(result_img),
                                    filename |-> filename,
                                    existing |-> files,
                                    overwrote |-> filename \in files,
                                    save |-> save]))

\* lines 134, 215, 218: the message names the number of sheets, the mode and
\* the format, or the exception; `names` is the set of sources it names
Message(text, created) == [text |-> text, created |-> created, names |-> {}]

\* stitch_images(image_paths, output_dir, split_count, target_width, max_kb,
\*               mode, rows, cols, output_format)
stitch_images(paths, a, c, files) ==
    IF paths = <<>>
    THEN [ok |-> FALSE, message |-> Message("No images to stitch.", 0),
          groups |-> <<>>, sheets |-> <<>>, files |-> files]
    ELSE LET groups == Groups(Len(paths), a.mode, a.split_count)
             loop == StitchLoop(paths, a, c, groups, 1, files, <<>>)
         IN  [ok |-> loop.ok,
              message |-> IF loop.ok
                          THEN Message("Successfully created", Len(loop.sheets))
                          ELSE Message("Error during stitching", 0),
              groups |-> groups, sheets |-> loop.sheets, files |-> loop.files]

----------------------------------------------------------------------------
(* The stitcher on its own *)

\* a source file: Image.open succeeds (readable), its pixels decode (loads)
Source(w, h, readable, loads) ==
    [width |-> w, height |-> h, readable |-> readable, loads |-> loads]
Readable(w, h) == Source(w, h, TRUE, TRUE)
\* sound, not an image, damaged
UnitSources == {Source(1, 1, TRUE, TRUE), Source(1, 1, FALSE, FALSE),
                Source(1, 1, TRUE, FALSE)}
AnySize == {Readable(w, h) : w \in 1..MaxDim, h \in 1..MaxHeight}
\* strips and banners: sizes whose heights are multiples of one another
Strips == {Readable(13, 3), Readable(4, 9), Readable(1, 27), Readable(15, 11),
           Readable(2, 22)}
\* the sizes of the images after the first one of a grid
FewSizes == {Readable(1, 1), Readable(MaxDim, 1)}
SeqsUpTo(S, n) == UNION {[1..m -> S] : m \in 1..n}
GridLists ==
    {<<first>> \o rest : first \in AnySize,
                         rest \in {<<>>} \cup SeqsUpTo(FewSizes, MaxGridImages - 1)}
PlainCodec == [thr |-> MaxThreshold, spike |-> 0, png_size |-> BigBytes, fail_at |-> 0]

StitchArgs(modes, splits, grids, widths, saves) ==
    {[mode |-> m, split_count |-> sc, rows |-> g[1], cols |-> g[2],
      target_width |-> tw, output_format |-> sv.output_format,
      max_kb |-> sv.max_kb] :
        m \in modes, sc \in splits, g \in grids, tw \in widths, sv \in saves}

InitStitch ==
    /\ fn = "stitch_images"
    /\ NoWindow
    /\ pc = "call"
    /\ env = Sound
    /\ result = None
    /\ \/ \* one sheet of any images, stacked or put side by side
          /\ args \in StitchArgs({"vertical", "horizontal"}, {1}, {<<2, 2>>},
                                 {None, Some(0), Some(WideTarget)},
                                 {[output_format |-> "AUTO", max_kb |-> None]})
          /\ image \in SeqsUpTo(AnySize, MaxImages)
          /\ codec = PlainCodec
          /\ disk = {}
       \/ \* grids with fewer, as many and more images than cells
          /\ args \in StitchArgs({"grid"}, {1},
                                 (-1..MaxGridCount) \X (-1..MaxGridCount),
                                 {None, Some(WideTarget)},
                                 {[output_format |-> "AUTO", max_kb |-> None]})
          /\ image \in GridLists
          /\ codec = PlainCodec
          /\ disk = {}
       \/ \* every way of saving, on sheets of unit images
          /\ args \in StitchArgs({"vertical", "horizontal", "grid"}, 0..MaxImages,
                                 {<<2, 2>>}, {None}, SliceSaves)
          /\ image \in SeqsUpTo({Readable(1, 1)}, MaxImages)
          /\ codec \in SliceCodecs
          /\ disk \in SUBSET {Name(1, 0), Name(1, 1), Name(2, 0)}
       \/ \* long lists in fewer, as many and more groups than images
          /\ args \in StitchArgs({"vertical", "horizontal"}, 0..(MaxBatch + 1),
                                 {<<2, 2>>}, {None},
                                 {[output_format |-> "AUTO", max_kb |-> None]})
          /\ image \in {[k \in 1..m |-> Readable(1, 1)] : m \in 1..MaxBatch}
          /\ codec = PlainCodec
          /\ disk = {}
       \/ \* strips put side by side: the lower ones are resized
          /\ args \in StitchArgs({"horizontal"}, {1}, {<<2, 2>>}, {None},
                                 {[output_format |-> "AUTO", max_kb |-> None]})
          /\ image \in SeqsUpTo(Strips, MaxImages)
          /\ codec = PlainCodec
          /\ disk = {}
       \/ \* sources that are not images or are damaged, saves that raise
          /\ args \in StitchArgs({"vertical", "horizontal", "grid"}, 0..MaxImages,
                                 {<<1, 2>>}, {None},
                                 {[output_format |-> "AUTO", max_kb |-> None]})
          /\ image \in SeqsUpTo(UnitSources, MaxImages)
          /\ codec \in SliceCodecs
          /\ disk = {}

StitchImages ==
    /\ fn = "stitch_images"
    /\ pc = "call"
    /\ LET r == stitch_images(image, args, codec, disk)
       IN  /\ result' = Some(r)
           /\ disk' = r.files
    /\ pc' = "done"
    /\ UNCHANGED <<fn, args, image, codec, env, app>>

NextStitch == StitchImages
SpecStitch == InitStitch /\ [][NextStitch]_vars

----------------------------------------------------------------------------
(* merger.py: get_compressed_image, merge_images_to_pdf *)

\* get_compressed_image(image, max_kb): None when the frame is returned as it
\* is, else the quality of the JPEG it is replaced by
get_compressed_image(c, max_kb) ==
    IF NoCeiling(max_kb) THEN None
    ELSE LET target_bytes == Val(max_kb) * BYTES_PER_KB
         IN  IF EncodedSize(c, DEFAULT_QUALITY) <= target_bytes THEN None
             ELSE LET s == QualitySearch(c, target_bytes, MERGE_MIN_Q, MERGE_MAX_Q,
                                         InitialBest(MERGE_MIN_Q, MERGE_MAX_Q), <<>>)
                      best_img_bytes ==
                          \E i \in 1..Len(s.probes) :
                              EncodedSize(c, s.probes[i]) <= target_bytes
                  IN  IF best_img_bytes THEN Some(s.best_q) ELSE Some(MERGE_MIN_Q)

\* a source of merge_images_to_pdf: Image.open succeeds (readable), it has
\* n_frames frames, and seek / convert / compress raises at frame bad_frame
\* (0: at none)
MergeSource(readable, n_frames, bad_frame) ==
    [readable |-> readable, n_frames |-> n_frames, bad_frame |-> bad_frame]

\* lines 74-81 from frame i on (i counts from 0): the pages a source adds
\* before the except clause at line 83 drops what is left of it
RECURSIVE MergeFrames(_, _, _, _, _, _)
MergeFrames(j, src, c, max_kb, i, pages) ==
    IF i >= src.n_frames \/ src.bad_frame = i + 1 THEN pages
    ELSE MergeFrames(j, src, c, max_kb, i + 1,
             Append(pages, [from |-> j, frame |-> i,
                            quality |-> get_compressed_image(c, max_kb)]))

\* lines 67-84 from path j on
RECURSIVE MergeLoad(_, _, _, _, _)
MergeLoad(paths, c, max_kb, j, images_to_save) ==
    IF j > Len(paths) THEN images_to_save
    ELSE MergeLoad(paths, c, max_kb, j + 1,
             IF paths[j].readable
             THEN MergeFrames(j, paths[j], c, max_kb, 0, images_to_save)
             ELSE images_to_save)

Merged(ok, text, pages) ==
    [ok |-> ok, message |-> text, pages |-> pages, wrote |-> ok]

\* merge_images_to_pdf(image_paths, output_path, max_kb_per_page); the save
\* at line 99 raises when c.fail_at = 1
merge_images_to_pdf(paths, max_kb, c) ==
    IF paths = <<>> THEN Merged(FALSE, "No images selected.", <<>>)
    ELSE LET images_to_save == MergeLoad(paths, c, max_kb, 1, <<>>)
         IN  IF images_to_save = <<>>
             THEN Merged(FALSE, "No valid images to merge.", <<>>)
             ELSE IF c.fail_at = 1
             THEN Merged(FALSE, "Error merging PDF", images_to_save)
             ELSE Merged(TRUE, "Successfully merged", images_to_save)

----------------------------------------------------------------------------
(* The merger on its own *)

MergeSources ==
    {MergeSource(FALSE, 1, 0)}
    \cup {src \in {MergeSource(TRUE, n, b) : n \in 1..MaxFrames, b \in 0..MaxFrames} :
              src.bad_frame <= src.n_frames}
\* nothing fits, the lowest quality fits, everything fits; the save raises
MergeCodecs ==
    {[thr |-> t, spike |-> 0, png_size |-> BigBytes, fail_at |-> 0] :
        t \in {0, MERGE_MIN_Q, MaxThreshold}}
    \cup {[thr |-> MaxThreshold, spike |-> 0, png_size |-> BigBytes, fail_at |-> 1]}
MergedFile == "merged.pdf"

InitMerge ==
    /\ fn = "merge_images_to_pdf"
    /\ NoWindow
    /\ pc = "call"
    /\ result = None
    /\ env = Sound
    /\ disk = {}
    /\ args \in [max_kb_per_page : {None, Some(0), Some(1)}]
    /\ image \in {<<>>} \cup SeqsUpTo(MergeSources, MaxImages)
    /\ codec \in MergeCodecs

MergeImagesToPdf ==
    /\ fn = "merge_images_to_pdf"
    /\ pc = "call"
    /\ LET r == merge_images_to_pdf(image, args.max_kb_per_page, codec)
       IN  /\ result' = Some(r)
           /\ disk' = IF r.wrote THEN disk \cup {MergedFile} ELSE disk
    /\ pc' = "done"
    /\ UNCHANGED <<fn, args, image, codec, env, app>>

NextMerge == MergeImagesToPdf
SpecMerge == InitMerge /\ [][NextMerge]_vars

----------------------------------------------------------------------------
(* sorter.py: sort_files *)

\* a path is the sequence of its characters
Digits09 == {"0", "1", "2", "3", "4", "5", "6", "7", "8", "9"}
DigitValue(ch) ==
    CASE ch = "0" -> 0 [] ch = "1" -> 1 [] ch = "2" -> 2 [] ch = "3" -> 3
      [] ch = "4" -> 4 [] ch = "5" -> 5 [] ch = "6" -> 6 [] ch = "7" -> 7
      [] ch = "8" -> 8 [] ch = "9" -> 9
Last(seq) == seq[Len(seq)]

\* str.split(sep) from character i on: parts holds the closed parts, cur the
\* open one; the result is never empty
RECURSIVE Split(_, _, _, _, _)
Split(str, sep, i, parts, cur) ==
    IF i > Len(str) THEN Append(parts, cur)
    ELSE IF str[i] = sep THEN Split(str, sep, i + 1, Append(parts, cur), <<>>)
    ELSE Split(str, sep, i + 1, parts, Append(cur, str[i]))

\* re.findall(r'(\d+)', filename) from character i on: the maximal runs of
\* digits, left to right
RECURSIVE FindAll(_, _, _, _)
FindAll(filename, i, matches, cur) ==
    IF i > Len(filename)
    THEN IF cur = <<>> THEN matches ELSE Append(matches, cur)
    ELSE IF filename[i] \in Digits09
    THEN FindAll(filename, i + 1, matches, Append(cur, filename[i]))
    ELSE FindAll(filename, i + 1,
                 IF cur = <<>> THEN matches ELSE Append(matches, cur), <<>>)

\* int(run) for a run of digits
RECURSIVE IntOf(_)
IntOf(run) ==
    IF run = <<>> THEN 0
    ELSE 10 * IntOf(SubSeq(run, 1, Len(run) - 1)) + DigitValue(Last(run))

\* variant: the first number of the name is taken
extract_first_number(filename) ==
    LET matches == FindAll(filename, 1, <<>>, <<>>)
    IN  IF matches # <<>> THEN Some(IntOf(Head(matches))) ELSE None
\* lines 9-16; None stands for float('inf')
extract_number(filename) ==
    LET matches == FindAll(filename, 1, <<>>, <<>>)
    IN  IF matches # <<>> THEN Some(IntOf(Last(matches))) ELSE None

\* line 18: the key of a path
SortKey(x) ==
    extract_number(Last(Split(Last(Split(x, "/", 1, <<>>, <<>>)), "\\", 1, <<>>, <<>>)))

\* a < b on keys: a number is smaller than inf, inf is not smaller than inf
KeyLess(a, b) ==
    IF IsNone(a) THEN FALSE
    ELSE IF IsNone(b) THEN TRUE
    ELSE Val(a) < Val(b)

\* sorted(list, key=...) is stable: x goes behind every element that is not
\* greater than it
RECURSIVE InsertByKey(_, _)
InsertByKey(sorted, x) ==
    IF sorted = <<>> THEN <<x>>
    ELSE IF KeyLess(SortKey(x), SortKey(Last(sorted)))
    THEN Append(InsertByKey(SubSeq(sorted, 1, Len(sorted) - 1), x), Last(sorted))
    ELSE Append(sorted, x)
RECURSIVE SortedByKey(_, _, _)
SortedByKey(list, i, sorted) ==
    IF i > Len(list) THEN sorted
    ELSE SortedByKey(list, i + 1, InsertByKey(sorted, list[i]))

sort_files(file_paths) == SortedByKey(file_paths, 1, <<>>)

----------------------------------------------------------------------------
(* The sorter on its own *)

\* names of one character, numbers of two digits, and names with several
\* numbers, with letters around the number, with a directory part
ShortNames == {<<ch>> : ch \in {"a", "b", "0", "1", "2"}}
TwoDigits == {<<ch, d>> : ch \in {"0", "1", "2"}, d \in {"0", "1", "2"}}
LongNames ==
    {<<"1", "a", "2">>, <<"2", "b", "1">>, <<"a", "1", "0">>, <<"0", "0", "2">>,
     <<"2", "/", "a">>, <<"a", "/", "1">>, <<"1", "\\", "b">>, <<"b", "\\", "2">>}
Paths == ShortNames \cup TwoDigits \cup LongNames

InitSort ==
    /\ fn = "sort_files"
    /\ NoWindow
    /\ pc = "call"
    /\ result = None
    /\ env = Sound
    /\ disk = {}
    /\ image = None
    /\ codec = PlainCodec
    /\ args \in {<<>>} \cup SeqsUpTo(Paths, MaxPaths)

SortFiles ==
    /\ fn = "sort_files"
    /\ pc = "call"
    /\ result' = Some(sort_files(args))
    /\ pc' = "done"
    /\ UNCHANGED <<fn, args, image, codec, disk, env, app>>

NextSort == SortFiles
SpecSort == InitSort /\ [][NextSort]_vars


----------------------------------------------------------------------------
(* main.py: paths *)

\* str.lower() on the letters the paths of the model are written with
LowerChar(ch) ==
    CASE ch = "J" -> "j" [] ch = "P" -> "p" [] ch = "G" -> "g"
      [] OTHER -> ch
LowerStr(str) == [i \in DOMAIN str |-> LowerChar(str[i])]
\* str.endswith(suffix), and str.endswith(tuple)
EndsWith(str, suffix) ==
    /\ Len(suffix) <= Len(str)
    /\ SubSeq(str, Len(str) - Len(suffix) + 1, Len(str)) = suffix
EndsWithAny(str, suffixes) == \E suffix \in suffixes : EndsWith(str, suffix)

\* os.path.basename: what follows the last separator
BaseName(path) ==
    LET seps == {i \in 1..Len(path) : path[i] = "/"}
        last_sep == IF seps = {} THEN 0 ELSE CHOOSE i \in seps : \A j \in seps : j <= i
    IN  SubSeq(path, last_sep + 1, Len(path))
\* os.path.splitext: the extension starts at the last dot of the name, unless
\* only dots come before it
SplitExt(path) ==
    LET name == BaseName(path)
        dir == SubSeq(path, 1, Len(path) - Len(name))
        dots == {i \in 1..Len(name) : name[i] = "."}
        last_dot == CHOOSE i \in dots : \A j \in dots : j <= i
    IN  IF dots = {} \/ \A j \in 1..(last_dot - 1) : name[j] = "."
        THEN <<path, <<>>>>
        ELSE <<dir \o SubSeq(name, 1, last_dot - 1),
               SubSeq(name, last_dot, Len(name))>>

JPG == <<".", "j", "p", "g">>
JPEG == <<".", "j", "p", "e", "g">>
PNG == <<".", "p", "n", "g">>
PDF == <<".", "p", "d", "f">>
PSD == <<".", "p", "s", "d">>
PPT == <<".", "p", "p", "t">>
PPTX == <<".", "p", "p", "t", "x">>
\* dropEvent, lines 1133-1136
valid_extensions(convert_tab) ==
    IF convert_tab THEN {PDF, PSD, PPT, PPTX} ELSE {JPG, JPEG, PNG, PDF}

\* the files of the computer: two pictures of one name in two folders, a
\* layered picture and a presentation
Files ==
    {<<"a", "/", "1">> \o JPG, <<"b", "/", "1", ".", "J", "P", "G">>,
     <<"a", "/", "2">> \o PSD, <<"a", "/", "3">> \o PPT}
\* the files whose content may be damaged
Damageable == {<<"b", "/", "1", ".", "J", "P", "G">>, <<"a", "/", "2">> \o PSD}
\* os.path.splitext(path)[1].lower() and
\* os.path.splitext(os.path.basename(path))[0] of every file
FileExt == [path \in Files |-> LowerStr(SplitExt(path)[2])]
FileStem == [path \in Files |-> SplitExt(BaseName(path))[1]]
\* the files a tab accepts: path.lower().endswith(valid_extensions)
AcceptedBy == [convert_tab \in BOOLEAN |->
                  {path \in Files :
                      EndsWithAny(LowerStr(path), valid_extensions(convert_tab))}]
Accepted(convert_tab) == AcceptedBy[convert_tab]
\* Image.open reads the picture formats and no document; `image` holds the
\* files whose content is damaged
Decodes(path) ==
    /\ FileExt[path] \in {JPG, JPEG, PNG}
    /\ path \notin image


----------------------------------------------------------------------------
(* main.py: the window and its lists *)

\* One tab of the window is modelled at a time; `fn` names the worker class
\* the tab starts.  The merge, slice and convert tabs keep their paths in a
\* list attribute of the window (merge_images, slice_images, convert_files);
\* the combine tab keeps them in the items of its list widget.
ThreadClasses == {"StitcherThread", "SlicerThread", "MergerThread", "ConverterThread"}

\* Python lists are objects: `heap` maps an object to its content, None when
\* no object is there.  The window holds one list and every worker whose
\* run() has not returned holds one; a list nobody holds is freed.
HeapSize == MaxRuns + 1
Roots(w, ts) ==
    {w.list} \cup {Val(ts[k].image_paths) : k \in {j \in DOMAIN ts : ts[j].pc # "done"}}
Collect(h, w, ts) == [id \in DOMAIN h |-> IF id \in Roots(w, ts) THEN h[id] ELSE None]
\* the object a new list becomes once `roots` are all that is held
NewList(h, roots) ==
    CHOOSE id \in DOMAIN h : id \notin roots /\ \A other \in DOMAIN h \ roots : id <= other
List(id) == Val(heap[id])

Range(seq) == {seq[i] : i \in DOMAIN seq}
\* list(set(...)): every order of the elements
Orders(S) == {order \in [1..Cardinality(S) -> S] : Range(order) = S}
\* `for x in new: if x not in list: list.append(x)`
RECURSIVE AppendNew(_, _)
AppendNew(list, new) ==
    IF new = <<>> THEN list
    ELSE AppendNew(IF Head(new) \in Range(list) THEN list ELSE Append(list, Head(new)),
                   Tail(new))
\* `for row in sorted(rows, reverse=True): del list[row]`; rows count from 1
RECURSIVE DelRows(_, _)
DelRows(list, rows) ==
    IF rows = {} THEN list
    ELSE LET row == CHOOSE r \in rows : \A other \in rows : other <= r
         IN  DelRows(SubSeq(list, 1, row - 1) \o SubSeq(list, row + 1, Len(list)),
                     rows \ {row})

\* the settings the start handlers read from the widgets
StitchSettings ==
    {[mode |-> m, split_count |-> 1, rows |-> None, cols |-> None,
      target_width |-> None, max_kb |-> 0, output_format |-> "AUTO",
      custom_name |-> <<>>] : m \in {"vertical", "horizontal"}}
SliceSettings ==
    {[direction |-> d[1], count |-> 2, smart_mode |-> FALSE, rows |-> d[2],
      cols |-> d[3], target_width |-> None, max_kb |-> 0,
      output_format |-> "AUTO", custom_name |-> d[4]] :
        d \in {<<"horizontal", None, None, <<>>>>, <<"horizontal", None, None, <<"x">>>>,
               <<"grid", Some(1), Some(2), <<>>>>, <<"grid", Some(0), Some(1), <<>>>>}}
CombineSettings == {[max_kb |-> 0, custom_name |-> <<"c">> \o PDF]}
ConvertSettings == {[output_format |-> f] : f \in {"jpg", "png"}}
Settings(class) ==
    CASE class = "StitcherThread" -> StitchSettings
      [] class = "SlicerThread" -> SliceSettings
      [] class = "MergerThread" -> CombineSettings
      [] class = "ConverterThread" -> ConvertSettings

\* the damaged files a behaviour may meet: none, or, with the name field
\* empty and no grid, one of those the tab accepts
Damaged(class, a) ==
    {{}} \cup IF class \in {"SlicerThread", "ConverterThread", "MergerThread"}
                 /\ (class = "SlicerThread" =>
                        a.custom_name = <<>> /\ a.direction # "grid")
              THEN {{path} : path \in Damageable \cap Accepted(class = "ConverterThread")}
              ELSE {}

\* __init__, lines 229-248: empty lists, no worker, the start button enabled
InitApp ==
    /\ fn \in ThreadClasses
    /\ args \in Settings(fn)
    /\ image \in Damaged(fn, args)
    /\ codec = PlainCodec
    /\ env = Sound
    /\ disk = {}
    /\ pc = "open"
    /\ result = None
    /\ window = [list |-> 1, enabled |-> TRUE]
    /\ heap = [id \in 1..HeapSize |-> IF id = 1 THEN Some(<<>>) ELSE None]
    /\ threads = <<>>

\* dropEvent: the files of the drop that the tab accepts.  The merge tab
\* binds a new sorted list; the slice and convert tabs append to the list in
\* place what it does not hold yet; the combine tab adds an item per file.
DropEvent ==
    /\ pc = "open"
    /\ \E files \in SeqsUpTo(Files, MaxDrop) :
        LET accepted(p) == p \in Accepted(fn = "ConverterThread")
            new_files == SelectSeq(files, accepted)
            id == NewList(heap, Roots(window, threads) \ {window.list})
            rebound == [window EXCEPT !.list = id]
        IN  /\ new_files # <<>>
            /\ IF fn = "StitcherThread"
               THEN \E order \in Orders(Range(List(window.list)) \cup Range(new_files)) :
                       /\ window' = rebound
                       /\ heap' = Collect([heap EXCEPT ![id] = Some(sort_files(order))],
                                          rebound, threads)
               ELSE /\ fn = "MergerThread" =>
                           Len(List(window.list)) + Len(new_files) <= MaxItems
                    /\ heap' = [heap EXCEPT ![window.list] =
                                   Some(IF fn = "MergerThread"
                                        THEN List(window.list) \o new_files
                                        ELSE AppendNew(List(window.list), new_files))]
                    /\ UNCHANGED window
    /\ UNCHANGED <<fn, args, image, codec, disk, env, pc, result, threads>>

\* _delete_items (delete_combine_items on the combine tab): the selected rows
\* leave the list, in place
DeleteItems ==
    /\ pc = "open"
    /\ \E rows \in SUBSET DOMAIN List(window.list) :
        /\ rows # {}
        /\ heap' = [heap EXCEPT ![window.list] = Some(DelRows(List(window.list), rows))]
    /\ UNCHANGED <<fn, args, image, codec, disk, env, pc, result, window, threads>>

\* clear_merge_list, clear_slice_list, clear_convert_list bind a new empty
\* list; clear_combine_list empties the widget
ClearList ==
    /\ pc = "open"
    /\ LET id == NewList(heap, Roots(window, threads) \ {window.list})
           rebound == [window EXCEPT !.list = id]
       IN  IF fn = "MergerThread"
           THEN /\ heap' = [heap EXCEPT ![window.list] = Some(<<>>)]
                /\ UNCHANGED window
           ELSE /\ window' = rebound
                /\ heap' = Collect([heap EXCEPT ![id] = Some(<<>>)], rebound, threads)
    /\ UNCHANGED <<fn, args, image, codec, disk, env, pc, result, threads>>


----------------------------------------------------------------------------
(* main.py: the workers *)

\* str(n) for n >= 0
DigitChar(d) == CHOOSE ch \in Digits09 : DigitValue(ch) = d
RECURSIVE Str(_)
Str(n) == IF n < 10 THEN <<DigitChar(n)>> ELSE Append(Str(n \div 10), DigitChar(n % 10))

\* a worker as its constructor leaves it.  image_paths is the list object it
\* was given; i counts the items its loop has fetched; processed, written,
\* emitted, delivered and at_start record what it did: the paths it handed
\* on, the files it wrote and for which source, the finished_signal
\* emissions, how many of them reached the window, and the content of the
\* window's list when the start button was pressed.
Worker(class, id, at_start, output_path) ==
    [class |-> class, image_paths |-> Some(id), pc |-> "run", i |-> 0,
     img_path |-> None, success |-> TRUE, processed |-> <<>>, written |-> {},
     emitted |-> <<>>, delivered |-> 0, at_start |-> at_start,
     output_path |-> output_path]
\* finished_signal.emit(ok, message) as the last statement of run()
Emit(t, ok) ==
    [t EXCEPT !.pc = "done", !.image_paths = None, !.emitted = Append(@, ok)]
\* variant: the except clause lets the exception pass
Reraise(t, ok) == [t EXCEPT !.pc = "done", !.image_paths = None]
\* `except Exception as e: self.finished_signal.emit(False, str(e))`
Except(t, ok) == Emit(t, ok)

\* a worker the window no longer refers to: its emissions are all that is
\* left of it
Replaced(t) ==
    IF t.pc = "done" /\ t.delivered = Len(t.emitted)
    THEN [t EXCEPT !.i = 0, !.success = TRUE, !.processed = <<>>,
                   !.written = {}, !.at_start = <<>>, !.output_path = None]
    ELSE t
\* what a start handler does once its inputs are read: the button is
\* disabled, the worker is made, bound to the window's attribute and started
Started(worker) ==
    /\ window' = [window EXCEPT !.enabled = FALSE]
    /\ threads' = Append([k \in DOMAIN threads |-> Replaced(threads[k])], worker)
\* a click reaches a start handler only while the button is enabled
Clicked ==
    /\ pc = "open"
    /\ window.enabled
    /\ Len(threads) < MaxRuns

\* start_stitching: the worker is given the window's list itself
StartStitching ==
    /\ fn = "StitcherThread"
    /\ Clicked
    /\ List(window.list) # <<>>
    /\ args.mode = "grid" => Val(args.rows) > 0 /\ Val(args.cols) > 0
    /\ Started(Worker(fn, window.list, List(window.list), None))
    /\ UNCHANGED <<fn, args, image, codec, disk, env, pc, result, heap>>

\* start_slicing: the worker is given the window's list itself
StartSlicing ==
    /\ fn = "SlicerThread"
    /\ Clicked
    /\ List(window.list) # <<>>
    /\ args.direction = "grid" => Val(args.rows) > 0 /\ Val(args.cols) > 0
    /\ Started(Worker(fn, window.list, List(window.list), None))
    /\ UNCHANGED <<fn, args, image, codec, disk, env, pc, result, heap>>

\* lines 1525-1530: the first of name, name_1, name_2, ... that no file has
RECURSIVE FreeOutput(_, _, _)
FreeOutput(files, custom_name, counter) ==
    LET split == SplitExt(custom_name)
        path == IF counter = 0 THEN custom_name
                ELSE split[1] \o <<"_">> \o Str(counter) \o split[2]
    IN  IF path \in files THEN FreeOutput(files, custom_name, counter + 1) ELSE path

\* start_combining: the worker is given a new list of the items' paths
StartCombining ==
    /\ fn = "MergerThread"
    /\ Clicked
    /\ List(window.list) # <<>>
    /\ LET id == NewList(heap, Roots(window, threads))
           custom_name == IF EndsWith(LowerStr(args.custom_name), PDF)
                          THEN args.custom_name ELSE args.custom_name \o PDF
           output_file_path ==
               FreeOutput({f.file : f \in {g \in disk : g.folder = <<>>}},
                          custom_name, 0)
       IN  /\ Started(Worker(fn, id, List(window.list), Some(output_file_path)))
           /\ heap' = [heap EXCEPT ![id] = Some(List(window.list))]
    /\ UNCHANGED <<fn, args, image, codec, disk, env, pc, result>>

\* start_converting: the worker is given the window's list itself
StartConverting ==
    /\ fn = "ConverterThread"
    /\ Clicked
    /\ List(window.list) # <<>>
    /\ Started(Worker(fn, window.list, List(window.list), None))
    /\ UNCHANGED <<fn, args, image, codec, disk, env, pc, result, heap>>

\* what a run() step leaves: the worker, the files written, the lists freed
Ran(k, worker, written) ==
    LET ts == [threads EXCEPT ![k] = [worker EXCEPT !.written = @ \cup written]]
    IN  /\ threads' = ts
        /\ disk' = disk \cup {f.path : f \in written}
        /\ heap' = Collect(heap, window, ts)
        /\ UNCHANGED <<fn, args, image, codec, env, pc, result, window>>
Running(k, class) ==
    /\ k \in DOMAIN threads
    /\ threads[k].class = class
    /\ threads[k].pc # "done"

\* def stitch_images(image_paths, output_dir, split_count=1, target_width=None,
\*                   max_kb=None, mode='vertical', rows=2, cols=2,
\*                   output_format='AUTO')
STITCH_IMAGES_PARAMS == 9
\* the positional arguments of the call in StitcherThread.run
StitcherCall(t) ==
    <<t.image_paths, "Desktop", args.split_count, args.target_width, args.max_kb,
      args.mode, args.rows, args.cols, args.output_format, args.custom_name>>
\* a call binds its positional arguments to the parameters in order; more
\* arguments than parameters raise TypeError before the body runs
Accepts(n_params, call) == Len(call) <= n_params

\* the pictures of the model are all of one size and of one colour
Picture == [width |-> 2, height |-> 2, variance |-> [p \in 0..1 |-> 0]]
StitchSourceOf(path) == Source(Picture.width, Picture.height, Decodes(path), Decodes(path))

\* StitcherThread.run
StitcherRun(k) ==
    /\ Running(k, "StitcherThread")
    /\ LET t == threads[k]
           paths == List(Val(t.image_paths))
           a == [args EXCEPT !.max_kb = Some(args.max_kb)]
           r == stitch_images([j \in DOMAIN paths |-> StitchSourceOf(paths[j])], a,
                              codec, {f.file : f \in disk})
       IN  IF Accepts(STITCH_IMAGES_PARAMS, StitcherCall(t))
           THEN Ran(k, Emit([t EXCEPT !.processed = paths], r.ok),
                    {[path |-> [folder |-> <<>>, file |-> name], from |-> <<>>] :
                        name \in r.files})
           ELSE Ran(k, Except(t, FALSE), {})

\* MergerThread.run
MergerRun(k) ==
    /\ Running(k, "MergerThread")
    /\ LET t == threads[k]
           paths == List(Val(t.image_paths))
           r == merge_images_to_pdf(
                    [j \in DOMAIN paths |-> MergeSource(Decodes(paths[j]), 1, 0)],
                    Some(args.max_kb), codec)
       IN  Ran(k, Emit([t EXCEPT !.processed = paths], r.ok),
               IF r.wrote
               THEN {[path |-> [folder |-> <<>>, file |-> Val(t.output_path)],
                      from |-> <<>>]}
               ELSE {})

\* converter.py: every converter returns (False, message) when anything
\* raises.  A document has one page; its picture goes into a folder of its
\* own, the picture of a layered file into the output directory itself.
ConvertFile(path, fmt) ==
    LET ext == FileExt[path]
        base_name == FileStem[path]
        out_ext == IF fmt = "png" THEN PNG ELSE JPG
    IN  IF ext \notin {PDF, PSD, PPT, PPTX} \/ path \in image
        THEN [ok |-> FALSE, written |-> {}]
        ELSE [ok |-> TRUE,
              written |->
                  {[path |-> IF ext = PSD
                             THEN [folder |-> <<>>, file |-> base_name \o out_ext]
                             ELSE [folder |-> base_name,
                                   file |-> base_name \o <<"_", "1">> \o out_ext],
                    from |-> path]}]

\* ConverterThread.run, one turn of `for path in self.file_paths`, or the end
\* of the loop and the emit
ConverterRun(k) ==
    /\ Running(k, "ConverterThread")
    /\ LET t == threads[k]
           file_paths == List(Val(t.image_paths))
       IN  IF t.i < Len(file_paths)
           THEN LET path == file_paths[t.i + 1]
                    r == ConvertFile(path, args.output_format)
                IN  Ran(k, [t EXCEPT !.i = @ + 1, !.success = @ /\ r.ok,
                                     !.processed = Append(@, path)],
                        r.written)
           ELSE Ran(k, Emit(t, t.success), {})

\* SlicerThread.run: `for i, img_path in enumerate(self.image_paths)` takes the
\* next item, or the loop ends and the signal is emitted
SlicerNext(k) ==
    /\ Running(k, "SlicerThread")
    /\ threads[k].pc = "run"
    /\ LET t == threads[k]
           image_paths == List(Val(t.image_paths))
       IN  IF t.i < Len(image_paths)
           THEN Ran(k, [t EXCEPT !.i = @ + 1, !.pc = "body",
                                 !.img_path = Some(image_paths[t.i + 1])], {})
           ELSE Ran(k, Emit(t, t.success), {})

\* the files a slicer call wrote: <output_dir>/<base_name>/<base_name><part>
SlicesOf(img_path, base_name, saved, grid) ==
    {[path |-> [folder |-> base_name,
                file |-> [base_name |-> base_name,
                          part |-> IF grid
                                   THEN [r |-> saved[j].r, c |-> saved[j].c,
                                         ext |-> saved[j].ext]
                                   ELSE saved[j].name]],
      from |-> img_path] : j \in DOMAIN saved}

\* the call of the loop body under every setting, for a source that decodes
\* or does not and an output folder that is there or not: slice_grid_image
\* for a grid, slice_image else; a limit of 0 KB is passed as None
SlicerCall ==
    [a \in SliceSettings |->
        [decodes \in BOOLEAN |->
            [folder \in {"absent", "present"} |->
                LET max_kb_val == IF a.max_kb > 0 THEN Some(a.max_kb) ELSE None
                IN  IF a.direction = "grid"
                    THEN slice_grid_image(Env(TRUE, decodes, folder), Picture,
                             [rows |-> Val(a.rows), cols |-> Val(a.cols),
                              output_format |-> a.output_format,
                              max_kb |-> max_kb_val], PlainCodec)
                    ELSE slice_image(Env(TRUE, decodes, folder), Picture,
                             [direction |-> a.direction, count |-> a.count,
                              smart_mode |-> a.smart_mode,
                              output_format |-> a.output_format,
                              max_kb |-> max_kb_val], PlainCodec)]]]

\* SlicerThread.run, the body of the loop: the name, the call, the message
SlicerBody(k) ==
    /\ Running(k, "SlicerThread")
    /\ threads[k].pc = "body"
    /\ LET t == threads[k]
           img_path == Val(t.img_path)
           i == t.i - 1
           c_name == IF args.custom_name # <<>> /\ Len(List(Val(t.image_paths))) > 1
                     THEN args.custom_name \o <<"_">> \o Str(i + 1)
                     ELSE args.custom_name
           base_name == IF c_name # <<>> THEN c_name ELSE FileStem[img_path]
           folder == IF \E f \in disk : f.folder = base_name
                     THEN "present" ELSE "absent"
           grid == args.direction = "grid"
           r == SlicerCall[args][Decodes(img_path)][folder]
       IN  Ran(k, [t EXCEPT !.pc = "run", !.img_path = None,
                            !.success = @ /\ r.ok,
                            !.processed = Append(@, img_path)],
               SlicesOf(img_path, base_name, r.saved, grid))

\* on_stitching_finished, on_slicing_finished, on_combining_finished,
\* on_converting_finished: the slot runs in the window's thread once per
\* emission and enables the start button
OnFinished(k) ==
    /\ k \in DOMAIN threads
    /\ threads[k].delivered < Len(threads[k].emitted)
    /\ threads' = [threads EXCEPT ![k].delivered = @ + 1]
    /\ window' = [window EXCEPT !.enabled = TRUE]
    /\ UNCHANGED <<fn, args, image, codec, disk, env, pc, result, heap>>

WorkerStep ==
    \E k \in 1..MaxRuns :
        \/ StitcherRun(k)
        \/ MergerRun(k)
        \/ ConverterRun(k)
        \/ SlicerNext(k)
        \/ SlicerBody(k)
Delivery == \E k \in 1..MaxRuns : OnFinished(k)

NextApp ==
    \/ DropEvent
    \/ DeleteItems
    \/ ClearList
    \/ StartStitching
    \/ StartSlicing
    \/ StartCombining
    \/ StartConverting
    \/ WorkerStep
    \/ Delivery
SpecApp == InitApp /\ [][NextApp]_vars
\* the operating system runs a started thread, and the event loop of the
\* window delivers a queued signal
SpecAppFair == SpecApp /\ WF_vars(WorkerStep) /\ WF_vars(Delivery)

----------------------------------------------------------------------------
(* Every entry point *)

Init == InitEncode \/ InitSlice \/ InitGrid \/ InitStitch \/ InitMerge
Next ==
    \/ SaveCompressedImage
    \/ SliceImage
    \/ SliceGridImage
    \/ StitchImages
    \/ MergeImagesToPdf
Spec == Init /\ [][Next]_vars

----------------------------------------------------------------------------
(* Claims about the encoder *)

EncodeDone == fn = "save_compressed_image" /\ pc = "done"
Ret == Val(result)
WrittenFile == Val(Ret.file)
TargetBytes == Val(args.max_kb) * BYTES_PER_KB
Fits(q) == EncodedSize(codec, q) <= TargetBytes
\* the encoded size is non-decreasing in quality over the qualities a search can try
SizeMonotone ==
    \A q \in JPEG_MIN_Q..(DEFAULT_QUALITY - 1) :
        EncodedSize(codec, q) <= EncodedSize(codec, q + 1)
JpegQualities == (JPEG_MIN_Q..JPEG_MAX_Q) \cup {DEFAULT_QUALITY}
PdfQualities == PDF_MIN_Q..PDF_MAX_Q
EncodeSearched(fmt) ==
    /\ EncodeDone
    /\ Ret.fmt = fmt
    /\ ~Ret.raised
    /\ ~NoCeiling(args.max_kb)

\* C5: JPEG with a ceiling C and a size that is non-decreasing in quality:
\* when some quality of [5,90] or 95 fits C*1024 bytes, the file written is
\* at most C*1024 bytes and its quality is the highest of [5,90] and 95 that fits.
C5_JpegHighestFittingQuality ==
    (EncodeSearched("JPEG") /\ SizeMonotone /\ \E q \in JpegQualities : Fits(q))
        => /\ ~IsNone(Ret.file)
           /\ WrittenFile.size <= TargetBytes
           /\ WrittenFile.size = EncodedSize(codec, WrittenFile.quality)
           /\ WrittenFile.quality \in JpegQualities
           /\ \A q \in JpegQualities : Fits(q) => q <= WrittenFile.quality

\* the binary search ran and settled strictly inside its range
C5_Witness ==
    /\ EncodeSearched("JPEG") /\ SizeMonotone
    /\ ~IsNone(Ret.file)
    /\ WrittenFile.quality = 60
    /\ ~Fits(WrittenFile.quality + 1)
    /\ Len(Ret.encodes) > 2

\* C6 as stated: with a ceiling, the quality chosen for a PDF is the quality
\* the JPEG procedure (probe at 95, binary search over [5,90], fallback 5)
\* chooses for the same mapping and ceiling.
C6_PdfQualityEqualsJpegProcedure ==
    EncodeSearched("PDF")
        => WrittenFile.quality = Val(SaveJpeg(codec, args.max_kb).file).quality

\* C6 amended: with a ceiling, the PDF search is the binary search over
\* [10,95] with no probe at 95 before it and fallback 10.  The first encode
\* is at the midpoint 52, every encode but the last goes to a buffer, the
\* quality chosen is in [10,95] and fits or is the fallback 10; when the size
\* is non-decreasing in quality it is the highest quality of [10,95] that
\* fits, and it is the JPEG procedure's choice whenever the highest fitting
\* quality of [5,95] lies in [10,90].
C6_PdfSearchOverItsOwnRange ==
    EncodeSearched("PDF")
        => /\ Ret.encodes[1] = Encode((PDF_MIN_Q + PDF_MAX_Q) \div 2, "buf")
           /\ \A i \in 1..(Len(Ret.encodes) - 1) :
                  /\ Ret.encodes[i].to = "buf"
                  /\ Ret.encodes[i].quality \in PdfQualities
           /\ Ret.encodes[Len(Ret.encodes)] = Encode(WrittenFile.quality, "path")
           /\ WrittenFile.quality \in PdfQualities
           /\ Fits(WrittenFile.quality) \/ WrittenFile.quality = PDF_MIN_Q
           /\ SizeMonotone =>
                  /\ \A q \in PdfQualities : Fits(q) => q <= WrittenFile.quality
                  /\ (\E q \in PdfQualities : Fits(q)) => Fits(WrittenFile.quality)
                  /\ (Fits(PDF_MIN_Q) /\ ~Fits(JPEG_MAX_Q + 1)) =>
                         WrittenFile.quality
                             = Val(SaveJpeg(codec, args.max_kb).file).quality

\* a PDF search that ends on a quality the JPEG range does not hold
C6_Witness ==
    /\ EncodeSearched("PDF") /\ SizeMonotone
    /\ WrittenFile.quality = 93
    /\ Fits(93) /\ ~Fits(94)

\* C7: with no ceiling (max_kb None, 0 or negative) JPEG and PDF are encoded
\* exactly once, at quality 95, straight to the output path; no search runs.
C7_NoCeilingOneEncodeAt95 ==
    (EncodeDone /\ Ret.fmt \in {"JPEG", "PDF"} /\ ~Ret.raised
        /\ (IsNone(args.max_kb) \/ Val(args.max_kb) <= 0))
        => /\ Ret.encodes = <<Encode(DEFAULT_QUALITY, "path")>>
           /\ Ret.file = File(Ret.fmt, DEFAULT_QUALITY,
                              EncodedSize(codec, DEFAULT_QUALITY))

\* a ceiling of 0 KB, on a mapping where a search would have found less than 95
C7_Witness ==
    /\ EncodeDone /\ Ret.fmt = "PDF" /\ ~Ret.raised
    /\ args.max_kb = Some(0)
    /\ EncodedSize(codec, DEFAULT_QUALITY) = BigBytes
    /\ Ret.encodes = <<Encode(DEFAULT_QUALITY, "path")>>

----------------------------------------------------------------------------
(* Claims about slice_image *)

SliceDone == fn = "slice_image" /\ pc = "done"
Sliced == Val(result)
\* the segments saved follow one another from 0 to the axis length
SegmentsSpan(saved, total_length) ==
    /\ Len(saved) >= 1
    /\ saved[1].start = 0
    /\ saved[Len(saved)].end = total_length
    /\ \A j \in 1..(Len(saved) - 1) : saved[j].end = saved[j + 1].start

C3_CutInsideWindow ==
    SliceDone =>
        \A i \in 1..Len(Sliced.calls) :
            LET call == Sliced.calls[i]
                p == call.final_pos
            IN  call.smart =>
                    /\ Max(0, call.t_num - call.search_range * call.t_den)
                           <= p * call.t_den
                    /\ p * call.t_den
                           <= Min((Sliced.total_length - 1) * call.t_den,
                                  call.t_num + call.search_range * call.t_den)

\* C4: the position _find_best_cut returns scores no worse than the naive
\* target position int(t), with score(q) = variance(q) + 0.1 * |q - t|.
C4_NoWorseThanNaiveTarget ==
    SliceDone =>
        \A i \in 1..Len(Sliced.calls) :
            LET call == Sliced.calls[i]
                score(q) == WeightedScore(image, q, args.direction,
                                          call.t_num, call.t_den)
            IN  call.smart =>
                    ~ScoreLess(score(IntTrunc(call.t_num, call.t_den)),
                               score(call.final_pos))

----------------------------------------------------------------------------
(* Claims about the names of the slices *)

\* the number a run of decimal digits writes
RECURSIVE NumberOf(_)
NumberOf(digits) ==
    IF digits = <<>> THEN 0
    ELSE 10 * NumberOf(SubSeq(digits, 1, Len(digits) - 1)) + digits[Len(digits)]

\* C15: the j-th file slice_image writes carries the number j, written with
\* at least two digits, after "_" for the horizontal and "_v" for the vertical
\* direction; the files follow one another along the cut axis, so the
\* numbers are 1, 2, ..., n without gap or repeat.
C15_SlicesNumberedInOrder ==
    SliceDone =>
        \A j \in 1..Len(Sliced.saved) :
            LET sl == Sliced.saved[j]
            IN  /\ NumberOf(sl.name.digits) = j
                /\ Len(sl.name.digits) >= 2
                /\ sl.name.tag = (IF args.direction = "vertical" THEN "_v" ELSE "_")
                /\ sl.start < sl.end
                /\ j > 1 => Sliced.saved[j - 1].end <= sl.start

\* a vertical cut in four asked on an axis of three pixels: two cut points
\* coincide and the three files are still numbered 01, 02, 03
C15_Witness ==
    /\ SliceDone /\ Sliced.ok
    /\ args.direction = "vertical" /\ args.count = 4
    /\ Sliced.total_length = 3
    /\ Len(Sliced.saved) = 3
    /\ Sliced.saved[3].name = [tag |-> "_v", digits |-> <<0, 3>>,
                                ext |-> ExtOf(args.output_format)]

----------------------------------------------------------------------------
(* Claims about slice_grid_image *)

GridDone == fn = "slice_grid_image" /\ pc = "done"
Gridded == Val(result)
InBox(b, x, y) == b.left <= x /\ x < b.right /\ b.upper <= y /\ y < b.lower
\* the index of cell (r, c) in row-major order
CellAt(r, c) == r * args.cols + c + 1

----------------------------------------------------------------------------
(* Claims about the stitcher *)

StitchDone == fn = "stitch_images" /\ pc = "done"
Sheets == Val(result).sheets
Overlap(p, q) ==
    /\ p.x < q.x + q.width /\ q.x < p.x + p.width
    /\ p.y < q.y + q.height /\ q.y < p.y + p.height
Inside(p, canvas) ==
    /\ 0 <= p.x /\ p.x + p.width <= canvas.width
    /\ 0 <= p.y /\ p.y + p.height <= canvas.height

\* C9: with no target width _stitch_vertical returns a canvas as wide as the
\* widest image and as high as the sum of the heights; image j is pasted at
\* y = the sum of the heights before it and x = (max_width - width_j) // 2,
\* in input order, inside the canvas, no two pastes overlapping.
C9_VerticalStack ==
    (StitchDone /\ args.mode = "vertical" /\ ~Truthy(args.target_width))
        => \A n \in 1..Len(Sheets) :
               LET images == Sheets[n].images
                   st == Sheets[n].stitched
                   wmax == CHOOSE w \in {images[j].width : j \in 1..Len(images)} :
                               \A j \in 1..Len(images) : images[j].width <= w
               IN  /\ st.canvas.width = wmax
                   /\ st.canvas.height = SumSeq(Heights(images))
                   /\ st.size = st.canvas
                   /\ Len(st.pastes) = Len(images)
                   /\ \A j \in 1..Len(images) :
                          /\ st.pastes[j].img = j
                          /\ st.pastes[j].width = images[j].width
                          /\ st.pastes[j].height = images[j].height
                          /\ st.pastes[j].y = SumSeq(SubSeq(Heights(images), 1, j - 1))
                          /\ 2 * st.pastes[j].x <= wmax - images[j].width
                          /\ wmax - images[j].width <= 2 * st.pastes[j].x + 1
                          /\ Inside(st.pastes[j], st.canvas)
                   /\ \A j, k \in 1..Len(images) :
                          j # k => ~Overlap(st.pastes[j], st.pastes[k])

\* three images of different widths, the narrow ones centred
C9_Witness ==
    /\ StitchDone /\ args.mode = "vertical" /\ IsNone(args.target_width)
    /\ Len(Sheets) = 1
    /\ Widths(Sheets[1].images) = <<1, 3, 2>>
    /\ Heights(Sheets[1].images) = <<2, 1, 2>>
    /\ Sheets[1].stitched.canvas = Size(3, 5)
    /\ Sheets[1].stitched.pastes[3] = Paste(3, 0, 3, 2, 2)
    /\ Sheets[1].stitched.pastes[1].x = 1

\* C10: for N >= 1 images, rows >= 1 and cols >= 1 _stitch_grid fills
\* min(N, rows*cols) cells: image k (from 0) goes to row k div cols, column
\* k mod cols, at pixel (col*ref_w, row*ref_h); the images from rows*cols on
\* are not used and the other cells get no paste; the canvas is ref_w*cols by
\* ref_h*rows, (ref_w, ref_h) being the size of the first image.
C10_GridRowMajor ==
    (StitchDone /\ args.mode = "grid" /\ args.rows >= 1 /\ args.cols >= 1)
        => \A n \in 1..Len(Sheets) :
               LET images == Sheets[n].images
                   st == Sheets[n].stitched
                   ref_w == images[1].width
                   ref_h == images[1].height
               IN  /\ Len(images) >= 1
                   /\ st.canvas = Size(ref_w * args.cols, ref_h * args.rows)
                   /\ Len(st.pastes) = Min(Len(images), args.rows * args.cols)
                   /\ \A j \in 1..Len(st.pastes) :
                          LET k == j - 1
                          IN  /\ st.pastes[j].img = j
                              /\ st.pastes[j].x = (k % args.cols) * ref_w
                              /\ st.pastes[j].y = (k \div args.cols) * ref_h
                              /\ st.pastes[j].width = ref_w
                              /\ st.pastes[j].height = ref_h
                              /\ Inside(st.pastes[j], st.canvas)
                   /\ \A j, k \in 1..Len(st.pastes) :
                          j # k => ~Overlap(st.pastes[j], st.pastes[k])

\* three images in a 2 x 2 grid: the third starts the second row, one cell
\* stays empty
C10_Witness ==
    /\ StitchDone /\ args.mode = "grid" /\ args.rows = 2 /\ args.cols = 2
    /\ Len(Sheets) = 1
    /\ Len(Sheets[1].images) = 3
    /\ Sheets[1].images[1] = Readable(3, 2)
    /\ Len(Sheets[1].stitched.pastes) = 3
    /\ Sheets[1].stitched.pastes[3] = Paste(3, 0, 2, 3, 2)

\* more images than cells: four images in a 1 x 2 grid, two are left out
C10_WitnessExtras ==
    /\ StitchDone /\ args.mode = "grid" /\ args.rows = 1 /\ args.cols = 2
    /\ Len(Sheets) = 1
    /\ Len(Sheets[1].images) = 4
    /\ Len(Sheets[1].stitched.pastes) = 2

----------------------------------------------------------------------------
(* Claims about the groups of stitch_images *)

Stitch == Val(result)
RECURSIVE Flatten(_)
Flatten(groups) ==
    IF groups = <<>> THEN <<>> ELSE Head(groups) \o Flatten(Tail(groups))
NonEmpty(groups) == {g \in 1..Len(groups) : groups[g] # <<>>}
Sizes(groups) == [g \in 1..Len(groups) |-> Len(groups[g])]
AllSound == \A j \in 1..Len(image) : image[j].readable /\ image[j].loads

\* C11: in the non-grid modes, for every list of M >= 1 paths and every
\* split_count, the groups taken one after the other give the positions
\* 1, 2, ..., M: each group is a contiguous slice in input order, every image
\* is in exactly one group, none is dropped or duplicated.
C11_GroupsPartitionInOrder ==
    (StitchDone /\ args.mode # "grid")
        => Flatten(Stitch.groups) = [k \in 1..Len(image) |-> k]

\* seven images in three groups: the second group holds the fourth and fifth
C11_Witness ==
    /\ StitchDone /\ args.mode = "vertical"
    /\ Len(image) = 7 /\ args.split_count = 3
    /\ Stitch.groups = << <<1, 2, 3>>, <<4, 5>>, <<6, 7>> >>

\* C12: in the non-grid modes with every image decodable and 1 <= split_count,
\* the number of non-empty groups is split_count when split_count <= M and M,
\* each of one image, when split_count > M; every sheet comes from a non-empty
\* group, and when the call returns True there is one sheet per non-empty
\* group.
C12_NonEmptyGroupsAndSheets ==
    (StitchDone /\ args.mode # "grid" /\ AllSound /\ args.split_count >= 1)
        => LET M == Len(image)
               s == args.split_count
               groups == Stitch.groups
           IN  /\ Cardinality(NonEmpty(groups)) = Min(s, M)
               /\ s > M => \A g \in NonEmpty(groups) : Len(groups[g]) = 1
               /\ \A k \in 1..Len(Sheets) :
                      /\ Sheets[k].p \in NonEmpty(groups)
                      /\ Sheets[k].from = groups[Sheets[k].p]
                      /\ \A j \in 1..(k - 1) : Sheets[j].p < Sheets[k].p
               /\ Stitch.ok => Len(Sheets) = Min(s, M)

\* two images asked in five groups: two sheets of one image, three groups
\* empty
C12_Witness ==
    /\ StitchDone /\ args.mode = "horizontal" /\ AllSound
    /\ Len(image) = 2 /\ args.split_count = 5
    /\ Len(Stitch.groups) = 5
    /\ Stitch.ok /\ Len(Sheets) = 2
    /\ Sheets[2].from = <<2>>

\* C13: for M images and split_count s >= 2 there are s groups, their sizes
\* sum to M, the first M mod s groups have floor(M/s) + 1 images and the others
\* floor(M/s).
C13_BalancedSizes ==
    (StitchDone /\ args.mode # "grid" /\ args.split_count >= 2)
        => LET M == Len(image)
               s == args.split_count
               sizes == Sizes(Stitch.groups)
           IN  /\ Len(sizes) = s
               /\ SumSeq(sizes) = M
               /\ \A g \in 1..s :
                      sizes[g] = (M \div s) + (IF g <= M % s THEN 1 ELSE 0)
               /\ \A g \in 1..(s - 1) : sizes[g] >= sizes[g + 1]

\* ten images in three groups: four, three and three
C13_Witness ==
    /\ StitchDone /\ args.mode # "grid"
    /\ Len(image) = 10 /\ args.split_count = 3
    /\ Sizes(Stitch.groups) = <<4, 3, 3>>

----------------------------------------------------------------------------
(* Claims about the names of the sheets *)

\* C14: the sheet of group N is written to the name without suffix when no
\* file has it, otherwise to the name with the smallest suffix 1, 2, ... that
\* no file has; the files looked at are those of the output directory when
\* the name is chosen, the earlier sheets of the call included, and the name
\* chosen is never one of them.
C14_FirstFreeName ==
    StitchDone =>
        \A k \in 1..Len(Sheets) :
            LET sh == Sheets[k]
                c == sh.filename.counter
            IN  /\ sh.filename = Name(sh.p, c)
                /\ c >= 0
                /\ sh.filename \notin sh.existing
                /\ ~sh.overwrote
                /\ \A b \in 0..(c - 1) : Name(sh.p, b) \in sh.existing
                /\ sh.existing
                       = (disk \ {Sheets[j].filename : j \in k..Len(Sheets)})
                /\ sh.filename \in disk

\* the names of sheet 1 without suffix and with suffix 1 are taken, and so is
\* the name of sheet 2: the sheets go to suffix 2 and to suffix 1
C14_Witness ==
    /\ StitchDone
    /\ Len(Sheets) = 2
    /\ Sheets[1].existing = {Name(1, 0), Name(1, 1), Name(2, 0)}
    /\ Sheets[1].filename = Name(1, 2)
    /\ Sheets[2].filename = Name(2, 1)

----------------------------------------------------------------------------
(* Claims about failures *)

\* the call that has returned asked for a grid with rows <= 0 or cols <= 0
InvalidGrid ==
    /\ pc = "done"
    /\ fn = "slice_grid_image" \/ (fn = "stitch_images" /\ args.mode = "grid")
    /\ args.rows <= 0 \/ args.cols <= 0

\* C16: a grid request with rows <= 0 or cols <= 0 returns False without
\* opening the source, making the output folder or writing a file.
C16_InvalidGridRejectedBeforeIO ==
    InvalidGrid =>
        /\ ~Val(result).ok
        /\ fn = "slice_grid_image" =>
               /\ ~Val(result).opened
               /\ ~Val(result).made_dir
               /\ Val(result).saved = <<>>
        /\ fn = "stitch_images" => Val(result).sheets = <<>>

EntryPoints == {"stitch_images", "slice_image", "slice_grid_image", "merge_images_to_pdf"}
Returned == pc = "done" /\ fn \in EntryPoints
\* the save numbered codec.fail_at is one of the n saves the call has to make
SaveRaises(n) == codec.fail_at \in 1..n
\* the groups of stitch_images with an image that Image.open accepts
OpenGroups ==
    {g \in 1..Len(Stitch.groups) : Opened(image, Stitch.groups[g]) # <<>>}
\* an image that Image.open accepted fails to decode when its group pastes it
\* (a grid pastes the first rows * cols images only)
DamagedPaste ==
    \E g \in OpenGroups :
        LET from == Opened(image, Stitch.groups[g])
            cells == (IF args.rows <= 0 THEN 1 ELSE args.rows)
                         * (IF args.cols <= 0 THEN 1 ELSE args.cols)
            pasted == IF args.mode = "grid" THEN Min(Len(from), cells) ELSE Len(from)
        IN  \E k \in 1..pasted : ~image[from[k]].loads
\* a source of merge_images_to_pdf that adds a page
AddsPage(src) == src.readable /\ src.bad_frame # 1
\* some decode, folder creation or encode failed during the call
SomethingFailed ==
    CASE fn = "slice_image" ->
             \/ ~env.exists \/ ~env.decodes \/ env.folder = "uncreatable"
             \/ SaveRaises(Len(Sliced.cut_points) - 1)
      [] fn = "slice_grid_image" ->
             \/ ~env.exists \/ ~env.decodes \/ env.folder = "uncreatable"
             \/ (args.rows > 0 /\ args.cols > 0 /\ SaveRaises(args.rows * args.cols))
      [] fn = "stitch_images" ->
             \/ \E j \in 1..Len(image) : ~image[j].readable
             \/ DamagedPaste
             \/ SaveRaises(Cardinality(OpenGroups))
      [] fn = "merge_images_to_pdf" ->
             \/ \E j \in 1..Len(image) : ~image[j].readable \/ image[j].bad_frame # 0
             \/ codec.fail_at = 1

\* C17 as stated: the four entry points return a (bool, message) pair whatever
\* fails, and ok is False when a decode, a folder creation, a crop or an
\* encode failed.
C17_AnyFailureYieldsFalse ==
    Returned =>
        /\ Val(result).ok \in BOOLEAN
        /\ SomethingFailed => ~Val(result).ok

\* C17 amended: the four entry points return a (bool, message) pair whatever
\* fails.  slice_image returns True exactly when the source exists and
\* decodes, the folder is there or can be made and no save raises;
\* slice_grid_image returns True only then, and only when rows and cols are
\* not 0.  stitch_images
\* returns True exactly when the list is not empty, no image it pastes is
\* damaged and no save raises: a source Image.open rejects is left out and
\* the call still returns True, even when no source is left.
\* merge_images_to_pdf returns True exactly when some source adds a page and
\* the save does not raise: a source that fails to load is left out.
C17_PairAndFailuresThatYieldFalse ==
    Returned =>
        /\ Val(result).ok \in BOOLEAN
        /\ fn = "slice_image" =>
               (Sliced.ok <=>
                    /\ env.exists /\ env.decodes /\ env.folder # "uncreatable"
                    /\ ~SaveRaises(Len(Sliced.cut_points) - 1))
        /\ fn = "slice_grid_image" =>
               (Gridded.ok =>
                    /\ env.exists /\ env.decodes /\ env.folder # "uncreatable"
                    /\ args.rows # 0 /\ args.cols # 0
                    /\ ~(args.rows > 0 /\ args.cols > 0
                           /\ SaveRaises(args.rows * args.cols)))
        /\ fn = "stitch_images" =>
               /\ Stitch.ok <=>
                      (image # <<>> /\ ~DamagedPaste
                          /\ ~SaveRaises(Cardinality(OpenGroups)))
               /\ Stitch.ok => Len(Sheets) = Cardinality(OpenGroups)
        /\ fn = "merge_images_to_pdf" =>
               /\ Val(result).ok <=>
                      ((\E j \in 1..Len(image) : AddsPage(image[j]))
                          /\ codec.fail_at # 1)
               /\ Val(result).wrote = Val(result).ok

\* stitch_images on a source that is not an image, a sound one and, in the
\* second group, a damaged one: the first sheet is written from the sound
\* image alone and the call returns False
C17_Witness ==
    /\ StitchDone /\ args.mode = "vertical" /\ args.split_count = 2
    /\ Len(image) = 3
    /\ ~image[1].readable /\ image[2].loads
    /\ image[3].readable /\ ~image[3].loads
    /\ ~Stitch.ok
    /\ Len(Sheets) = 1 /\ Sheets[1].from = <<2>>

\* the sheets that hold source j
SheetsOf(j) ==
    {k \in 1..Len(Sheets) : \E m \in 1..Len(Sheets[k].from) : Sheets[k].from[m] = j}

\* C18: in the batch of a stitch_images call (non-grid modes, no save
\* raising) a source that fails to decode is left out of the sheets and named
\* in the final message, and every other source is on exactly one sheet.
C18_DecodeFailureSkippedAndReported ==
    (StitchDone /\ args.mode # "grid" /\ codec.fail_at = 0)
        => \A j \in 1..Len(image) :
               IF image[j].readable /\ image[j].loads
               THEN Cardinality(SheetsOf(j)) = 1
               ELSE SheetsOf(j) = {} /\ j \in Stitch.message.names

----------------------------------------------------------------------------
(* Claims about sort_files *)

SortDone == fn = "sort_files" /\ pc = "done"
Sorted == Val(result)
Occurrences(list, x) == Cardinality({i \in 1..Len(list) : list[i] = x})
\* the file name of a path: what follows its last separator
FileName(path) ==
    LET seps == {i \in 1..Len(path) : path[i] \in {"/", "\\"}}
        last == IF seps = {} THEN 0 ELSE CHOOSE i \in seps : \A k \in seps : k <= i
    IN  SubSeq(path, last + 1, Len(path))
DigitAt(name) == {i \in 1..Len(name) : name[i] \in Digits09}
HasNumber(path) == DigitAt(FileName(path)) # {}
\* the value of the last run of digits of the file name
LastNumber(path) ==
    LET name == FileName(path)
        e == CHOOSE i \in DigitAt(name) : \A k \in DigitAt(name) : k <= i
        b == CHOOSE i \in 1..e :
                 /\ \A k \in i..e : k \in DigitAt(name)
                 /\ i = 1 \/ (i - 1) \notin DigitAt(name)
        weight[k \in b..e] == IF k = e THEN 1 ELSE 10 * weight[k + 1]
        value[k \in b..e] ==
            DigitValue(name[k]) * weight[k] + (IF k = e THEN 0 ELSE value[k + 1])
    IN  value[b]
\* the place of a character in the character set
Code(ch) ==
    CASE ch = "/" -> 47
      [] ch \in Digits09 -> 48 + DigitValue(ch)
      [] ch = "\\" -> 92
      [] ch = "a" -> 97
      [] ch = "b" -> 98
\* x <= y on strings
RECURSIVE StrLeq(_, _)
StrLeq(x, y) ==
    IF x = <<>> THEN TRUE
    ELSE IF y = <<>> THEN FALSE
    ELSE IF Head(x) = Head(y) THEN StrLeq(Tail(x), Tail(y))
    ELSE Code(Head(x)) < Code(Head(y))

\* C19: sort_files returns the paths it was given, each as often as given,
\* by non-decreasing value of the last run of digits of the file name (the
\* directory part and leading zeros do not count), the paths whose file name
\* has no digit after all the others.
C19_OrderedByLastNumber ==
    SortDone =>
        /\ Len(Sorted) = Len(args)
        /\ \A i \in 1..Len(args) : Occurrences(Sorted, args[i]) = Occurrences(args, args[i])
        /\ \A i, j \in 1..Len(Sorted) :
               i < j =>
                   /\ HasNumber(Sorted[j]) => HasNumber(Sorted[i])
                   /\ (HasNumber(Sorted[i]) /\ HasNumber(Sorted[j]))
                          => LastNumber(Sorted[i]) <= LastNumber(Sorted[j])

\* "a10", "2/a" and "002" come out as "002" (2), "a10" (10) and "2/a", whose
\* file name has no digit
C19_Witness ==
    /\ SortDone
    /\ args = << <<"a", "1", "0">>, <<"2", "/", "a">>, <<"0", "0", "2">> >>
    /\ Sorted = << <<"0", "0", "2">>, <<"a", "1", "0">>, <<"2", "/", "a">> >>

\* C20: the paths whose file name has no number come out in alphabetical
\* order (of the paths, or of the file names), whatever their order in the
\* input.
C20_NoNumberAlphabetical ==
    SortDone =>
        \A i, j \in 1..Len(Sorted) :
            (i < j /\ ~HasNumber(Sorted[i]) /\ ~HasNumber(Sorted[j]))
                => \/ StrLeq(Sorted[i], Sorted[j])
                   \/ StrLeq(FileName(Sorted[i]), FileName(Sorted[j]))

----------------------------------------------------------------------------
(* Claims about saving over budget, from every caller *)

\* the save sv ran a search under the ceiling and every size it probed
\* exceeded the ceiling
OverBudget(sv) ==
    /\ sv.fmt \in {"JPEG", "PDF"}
    /\ ~sv.raised
    /\ ~IsNone(args.max_kb) /\ Val(args.max_kb) > 0
    /\ \E i \in 1..Len(sv.encodes) : sv.encodes[i].to = "buf"
    /\ \A i \in 1..Len(sv.encodes) :
           sv.encodes[i].to = "buf" =>
               EncodedSize(codec, sv.encodes[i].quality) > TargetBytes
\* the save wrote its file with a last encode at quality q
WroteAt(sv, q) ==
    /\ ~IsNone(sv.file)
    /\ Val(sv.file).quality = q
    /\ sv.encodes[Len(sv.encodes)] = Encode(q, "path")
\* the saves of the call that has returned, and whether it reported success
SavesMade ==
    CASE fn = "save_compressed_image" -> <<Val(result)>>
      [] fn = "stitch_images" ->
             [i \in 1..Len(Val(result).sheets) |-> Val(result).sheets[i].save]
      [] fn = "merge_images_to_pdf" -> <<>>
      [] OTHER -> [i \in 1..Len(Val(result).saved) |-> Val(result).saved[i].save]
CallerOk == fn = "save_compressed_image" \/ Val(result).ok

\* C8 as stated: when every probed size exceeds the ceiling the file is still
\* written, at quality 5, without an error, and the caller returns ok = True.
C8_OverBudgetWritesQuality5 ==
    pc = "done" =>
        \A i \in 1..Len(SavesMade) :
            OverBudget(SavesMade[i]) => WroteAt(SavesMade[i], JPEG_MIN_Q)

\* C8 amended: when every probed size exceeds the ceiling the file is still
\* written, at the lowest bound of the codec's own range (quality 5 for JPEG,
\* quality 10 for PDF), without an error, and stitch_images / slice_image /
\* slice_grid_image, when none of its saves raises and its sources and its
\* folder are sound, returns ok = True.
C8_OverBudgetWritesLowestBound ==
    pc = "done" =>
        /\ \A i \in 1..Len(SavesMade) :
               OverBudget(SavesMade[i]) =>
                   WroteAt(SavesMade[i],
                           IF SavesMade[i].fmt = "PDF" THEN PDF_MIN_Q ELSE JPEG_MIN_Q)
        /\ (codec.fail_at = 0
                /\ fn \in {"stitch_images", "slice_image", "slice_grid_image"}
                /\ (fn = "slice_grid_image" => args.rows # 0 /\ args.cols # 0)
                /\ (fn = "stitch_images" => \A j \in 1..Len(image) : image[j].loads)
                /\ env.exists /\ env.decodes /\ env.folder # "uncreatable")
               => CallerOk

\* slice_image saving two over-budget JPEG segments and returning True
C8_Witness ==
    /\ pc = "done" /\ fn = "slice_image"
    /\ Len(SavesMade) = 2
    /\ \A i \in 1..2 : OverBudget(SavesMade[i]) /\ WroteAt(SavesMade[i], JPEG_MIN_Q)
    /\ Val(result).ok

\* the same from stitch_images, for a PDF
C8_WitnessPdf ==
    /\ pc = "done" /\ fn = "stitch_images"
    /\ Len(SavesMade) >= 1
    /\ OverBudget(SavesMade[1]) /\ WroteAt(SavesMade[1], PDF_MIN_Q)
    /\ Val(result).ok

----------------------------------------------------------------------------
(* Claims about the file save_compressed_image leaves *)

\* C21: every call of save_compressed_image that returns without raising has
\* written a file at output_path, for every output_format and every extension
\* of output_path.
C21_ReturnedCallWroteAFile ==
    (EncodeDone /\ ~Ret.raised) => ~IsNone(Ret.file)

----------------------------------------------------------------------------
(* Claims about the scan of _find_best_cut *)

\* the integer positions of [t - r, t + r] that lie in the image
Window(call, total_length) ==
    {p \in 0..(total_length - 1) :
        /\ call.t_num - call.search_range * call.t_den <= p * call.t_den
        /\ p * call.t_den <= call.t_num + call.search_range * call.t_den}
CallScore(call, p) ==
    WeightedScore(image, p, args.direction, call.t_num, call.t_den)

\* C22: in content-aware mode the position _find_best_cut returns has the
\* least score variance(p) + 0.1 * |p - t| of every integer position of
\* [t - r, t + r] inside the image, the upper end of the window included.
C22_LeastScoreOfTheWholeWindow ==
    SliceDone =>
        \A i \in 1..Len(Sliced.calls) :
            LET call == Sliced.calls[i]
            IN  call.smart =>
                    \A p \in Window(call, Sliced.total_length) :
                        ~ScoreLess(CallScore(call, p),
                                   CallScore(call, call.final_pos))

\* the positions the loop of a call visits
Scanned(call, total_length) ==
    ScanRange(StartPos(call.t_num, call.t_den, call.search_range),
              EndPos(total_length, call.t_num, call.t_den, call.search_range))

\* C23: of the positions the loop visits, _find_best_cut returns one of least
\* score, and the lowest of them when several share that score: every
\* visited position below the returned one has a strictly greater score.
C23_LowestOfTheTiedPositions ==
    SliceDone =>
        \A i \in 1..Len(Sliced.calls) :
            LET call == Sliced.calls[i]
                visited == Scanned(call, Sliced.total_length)
                best == call.final_pos
            IN  (call.smart /\ visited # {}) =>
                    /\ best \in visited
                    /\ \A p \in visited :
                           /\ CallScore(call, best) <= CallScore(call, p)
                           /\ p < best => CallScore(call, best) < CallScore(call, p)

\* a long axis cut in two where a higher visited position ties with the
\* returned one
C23_Witness ==
    /\ SliceDone /\ Sliced.ok
    /\ Sliced.total_length = WideLen
    /\ \E i \in 1..Len(Sliced.calls) :
           LET call == Sliced.calls[i]
           IN  /\ call.smart
               /\ \E p \in Scanned(call, Sliced.total_length) :
                      /\ p > call.final_pos
                      /\ CallScore(call, p) = CallScore(call, call.final_pos)

----------------------------------------------------------------------------
(* Claims about the length of the quality search *)

\* the turns of the while loop of a call: its encodes to a buffer, less the
\* probe at 95 that the JPEG branch makes before its loop
LoopTurns ==
    LET buffered == Cardinality({i \in 1..Len(Ret.encodes) : Ret.encodes[i].to = "buf"})
    IN  IF Ret.fmt = "JPEG" THEN buffered - 1 ELSE buffered

\* C24: the quality search of save_compressed_image, JPEG and PDF, ends after
\* at most 7 turns of its loop, one encode each, for every mapping from
\* quality to size and every ceiling.
C24_SearchEndsWithinSevenTurns ==
    (EncodeSearched("JPEG") \/ EncodeSearched("PDF"))
        => /\ LoopTurns <= 7
           /\ ~IsNone(Ret.file)
           /\ Ret.encodes[Len(Ret.encodes)].to = "path"
                  \/ Ret.encodes = <<Encode(DEFAULT_QUALITY, "buf")>>

\* a PDF search of exactly seven turns on a mapping that is not monotone
C24_Witness ==
    /\ EncodeSearched("PDF")
    /\ ~SizeMonotone
    /\ LoopTurns = 7

\* a JPEG search of exactly seven turns after its probe
C24_WitnessJpeg ==
    /\ EncodeSearched("JPEG")
    /\ LoopTurns = 7
    /\ Len(Ret.encodes) = 9

----------------------------------------------------------------------------
(* Claims about the cut points *)

\* slice_image got as far as its list of cut points
CutsMade == SliceDone /\ Sliced.opened /\ env.decodes

\* C25: for every axis length L >= 1, every count and both modes, the list
\* of cut points slice_image crops by is strictly increasing, starts with 0,
\* ends with L and lies in [0, L]; every segment cropped has a positive
\* length.
C25_CutPointsStrictlyIncreasing ==
    CutsMade =>
        LET cut_points == Sliced.cut_points
        IN  /\ Len(cut_points) >= 2
            /\ cut_points[1] = 0
            /\ cut_points[Len(cut_points)] = Sliced.total_length
            /\ \A j \in 1..Len(cut_points) : cut_points[j] \in 0..Sliced.total_length
            /\ \A j \in 1..(Len(cut_points) - 1) : cut_points[j] < cut_points[j + 1]
            /\ \A j \in 1..Len(Sliced.saved) :
                   /\ Sliced.saved[j].start = cut_points[Sliced.saved[j].index]
                   /\ Sliced.saved[j].end = cut_points[Sliced.saved[j].index + 1]
                   /\ Sliced.saved[j].start < Sliced.saved[j].end

\* content-aware cuts that coincide: fewer cut points than count + 1
C25_Witness ==
    /\ CutsMade /\ Sliced.ok
    /\ args.smart_mode
    /\ Len(Sliced.calls) = args.count - 1
    /\ Len(Sliced.cut_points) < args.count + 1
    /\ Len(Sliced.saved) = Len(Sliced.cut_points) - 1

\* a count of zero: the list is [0, L]
C25_WitnessNoCount ==
    /\ CutsMade /\ Sliced.ok
    /\ args.count = 0
    /\ Sliced.cut_points = <<0, Sliced.total_length>>

----------------------------------------------------------------------------
(* Claims about _stitch_horizontal *)

\* C26: _stitch_horizontal gives every image the height max_height, the
\* greatest height of its images; an image of size w x h with h # max_height
\* gets the width int(max_height * w / h); the canvas is as wide as the sum
\* of these widths and image j is pasted at x = the sum of the widths before
\* it: left to right in input order, no gap and no overlap.
C26_HorizontalRow ==
    (StitchDone /\ args.mode = "horizontal")
        => \A n \in 1..Len(Sheets) :
               LET images == Sheets[n].images
                   st == Sheets[n].stitched
                   max_height == CHOOSE h \in {images[j].height : j \in 1..Len(images)} :
                                     \A j \in 1..Len(images) : images[j].height <= h
                   width(j) == IF images[j].height # max_height
                               THEN (max_height * images[j].width) \div images[j].height
                               ELSE images[j].width
               IN  /\ st.canvas.height = max_height
                   /\ st.canvas.width = SumSeq([j \in 1..Len(images) |-> width(j)])
                   /\ Len(st.pastes) = Len(images)
                   /\ \A j \in 1..Len(images) :
                          /\ st.pastes[j].img = j
                          /\ st.pastes[j].height = max_height
                          /\ st.pastes[j].width = width(j)
                          /\ st.pastes[j].y = 0
                          /\ st.pastes[j].x
                                 = SumSeq([k \in 1..(j - 1) |-> width(k)])

----------------------------------------------------------------------------
(* Claims about the workers of main.py *)

Workers == DOMAIN threads
RunReturned(t) == t.pc = "done"

\* C29: a stitch job started from the merge tab with at least one decodable
\* image in the list ends with finished_signal(True, message) and at least
\* one file written
C29_StitchJobSucceeds ==
    \A k \in Workers :
        LET t == threads[k]
        IN  (/\ t.class = "StitcherThread"
             /\ RunReturned(t)
             /\ \E j \in DOMAIN t.at_start : Decodes(t.at_start[j]))
                => t.emitted = <<TRUE>> /\ t.written # {}

\* C27: what a slicer or converter worker processed, in order, is the content
\* the window's list had when the start button was pressed, whatever was
\* deleted from or dropped onto the list while it ran
C27_ProcessedIsTheListAtStart ==
    \A k \in Workers :
        LET t == threads[k]
        IN  (t.class \in {"SlicerThread", "ConverterThread"} /\ RunReturned(t))
                => t.processed = t.at_start

\* C30: within one run of a slicer worker two different sources never write
\* the same output file path
C30_NoOutputPathOfTwoSources ==
    \A k \in Workers :
        threads[k].class = "SlicerThread" =>
            \A f, g \in threads[k].written : f.path = g.path => f.from = g.from

\* a worker has emitted at most once, and once when its run() has returned
EmitsOnce(t) == Len(t.emitted) <= 1 /\ (RunReturned(t) => Len(t.emitted) = 1)
StillRunning == {k \in Workers : ~RunReturned(threads[k])}

\* C28: every started worker emits finished_signal exactly once, whether its
\* run succeeds, reports a failure or raises; while the start button is
\* disabled at most one worker is running; and a disabled start button is
\* enabled again later
C28_OneSignalAndTheButtonComesBack ==
    /\ [](\A k \in Workers : EmitsOnce(threads[k]))
    /\ [](~window.enabled => Cardinality(StillRunning) <= 1)
    /\ (~window.enabled ~> window.enabled)
\* a second worker was started after the first had finished, it reported a
\* failure or raised, and its signal enabled the button again
C28_Witness ==
    /\ Len(threads) = 2
    /\ threads[2].emitted = <<FALSE>>
    /\ threads[2].delivered = 1
    /\ threads[1].emitted # <<>>
    /\ window.enabled
\* a worker whose run succeeded, its signal delivered
C28_WitnessSuccess ==
    \E k \in Workers :
        /\ threads[k].class = "SlicerThread"
        /\ threads[k].emitted = <<TRUE>>
        /\ threads[k].processed # <<>>
        /\ threads[k].delivered = 1
        /\ window.enabled

====
